---- MODULE Spec2Model ----
(***************************************************************************)
(* The node security core of swarmkit's ca package: bootstrap of a node's  *)
(* TLS identity (LoadOrCreateSecurityConfig), credential files and their   *)
(* crash recovery (LoadTLSCreds), and the renewal task (RenewTLSConfig).   *)
(***************************************************************************)
EXTENDS Integers, Sequences, FiniteSets, TLC

(***************************************************************************)
(* Bounds of the model.                                                    *)
(***************************************************************************)
\* Number of key pairs that may be generated (issuance attempts) in a run.
MaxCerts == 2
\* Number of process crashes (each followed by a restart) in a run.
MaxCrashes == 1
\* Number of UpdateRootCA calls in one process lifetime.
MaxRootUpdates == 1

(***************************************************************************)
(* Program constants.                                                      *)
(***************************************************************************)
rootCACertFilename == "swarm-root-ca.crt"
rootCAKeyFilename == "swarm-root-ca.key"
nodeTLSCertFilename == "swarm-node.crt"
nodeTLSKeyFilename == "swarm-node.key"
ManagerRole == "swarm-manager"
WorkerRole == "swarm-worker"
CARole == "swarm-ca"
\* for i := 0; i != 5; i++
FetchAttempts == 5
\* tls.VersionTLS12, as major*10+minor
VersionTLS12 == 12
\* retry = 5 * time.Minute
DefaultRetry == 5

(***************************************************************************)
(* Values.                                                                 *)
(***************************************************************************)
\* The root certificates of the model: R1 is the cluster's root, R2 is any
\* other root (offered by a wrong remote, or installed by UpdateRootCA).
Roots == {"R1", "R2"}
Roles == {ManagerRole, WorkerRole}

\* Content of a file that does not exist / that does not parse.
NoFile == [st |-> "absent"]
Corrupt == [st |-> "corrupt"]
RootCertPEM(r) == [st |-> "root", cert |-> r]
RootKeyPEM(r) == [st |-> "rootkey", cert |-> r]
\* A node certificate: its public key is the one of key pair `serial`.
CertPEM(serial, issuer, role, cn) ==
    [st |-> "cert", serial |-> serial, issuer |-> issuer, role |-> role, cn |-> cn]
KeyPEM(serial) == [st |-> "key", serial |-> serial]

(* Strings are sequences of characters, so that they can be split, padded
   and measured.  A big.Int that is not negative is the sequence of its
   hexadecimal digits (0..15), most significant first, without leading
   zeros: zero is the empty sequence. *)
joinTokenBase == 36
base36DigestLen == 50
maxGeneratedSecretLength == 25
generatedSecretEntropyBytes == 16
\* Number of hexadecimal characters of a sha256 digest.
DigestHexLen == 64

LowerDigits ==
    <<"0", "1", "2", "3", "4", "5", "6", "7", "8", "9", "a", "b", "c", "d", "e", "f",
      "g", "h", "i", "j", "k", "l", "m", "n", "o", "p", "q", "r", "s", "t", "u", "v",
      "w", "x", "y", "z">>
UpperDigits ==
    <<"0", "1", "2", "3", "4", "5", "6", "7", "8", "9", "A", "B", "C", "D", "E", "F",
      "G", "H", "I", "J", "K", "L", "M", "N", "O", "P", "Q", "R", "S", "T", "U", "V",
      "W", "X", "Y", "Z">>

\* The value of a character as a digit in the base; -1 when it is none.
DigitValue(c, base) ==
    IF \E i \in 1..base : LowerDigits[i] = c \/ UpperDigits[i] = c
    THEN (CHOOSE i \in 1..base : LowerDigits[i] = c \/ UpperDigits[i] = c) - 1
    ELSE -1

RECURSIVE NatLimbs(_)
NatLimbs(k) == IF k = 0 THEN <<>> ELSE Append(NatLimbs(k \div 16), k % 16)

Min(S) == CHOOSE x \in S : \A y \in S : x <= y

RECURSIVE Pow(_, _)
Pow(b, k) == IF k = 0 THEN 1 ELSE b * Pow(b, k - 1)

\* The conversions take the characters of a string ChunkLen at a time:
\* base^ChunkLen times 16 stays below 2^31 for the bases up to 36.
ChunkLen == 5

\* The digits lo..hi of n * m + carry, and what is carried out of them; the
\* range is halved, the right half first: the test of the carry has the
\* right half computed before the left half is entered.
RECURSIVE MulRange(_, _, _, _, _)
MulRange(n, m, carry, lo, hi) ==
    IF lo > hi \/ carry < 0 THEN [digits |-> <<>>, carry |-> carry]
    ELSE IF lo = hi
    THEN LET v == n[lo] * m + carry
         IN  [digits |-> <<v % 16>>, carry |-> v \div 16]
    ELSE LET mid == (lo + hi) \div 2
             right == MulRange(n, m, carry, mid + 1, hi)
             left == MulRange(n, m, right.carry, lo, mid)
         IN  [digits |-> left.digits \o right.digits, carry |-> left.carry]

\* n * m + carry
MulAdd(n, m, carry) ==
    LET p == MulRange(n, m, carry, 1, Len(n))
    IN  NatLimbs(p.carry) \o p.digits

Normalize(n) ==
    LET nz == {i \in 1..Len(n) : n[i] # 0}
    IN  IF nz = {} THEN <<>> ELSE SubSeq(n, Min(nz), Len(n))

\* Long division by m of the digits lo..hi of n, rem being the remainder of
\* what is on their left; the range is halved, the left half first.
RECURSIVE DivRange(_, _, _, _, _)
DivRange(n, m, rem, lo, hi) ==
    IF lo > hi THEN [q |-> <<>>, r |-> rem]
    ELSE IF lo = hi
    THEN LET cur == rem * 16 + n[lo]
         IN  [q |-> <<cur \div m>>, r |-> cur % m]
    ELSE LET mid == (lo + hi) \div 2
             left == DivRange(n, m, rem, lo, mid)
             right == DivRange(n, m, left.r, mid + 1, hi)
         IN  [q |-> left.q \o right.q, r |-> right.r]

\* The quotient and the remainder of n by m.
DivMod(n, m) ==
    LET p == DivRange(n, m, 0, 1, Len(n))
    IN  [q |-> Normalize(p.q), r |-> p.r]

\* v < base^ChunkLen as ChunkLen characters.
ChunkText(v, base) ==
    [i \in 1..ChunkLen |-> LowerDigits[((v \div Pow(base, ChunkLen - i)) % base) + 1]]

RECURSIVE TextChunks(_, _)
TextChunks(n, base) ==
    IF n = <<>> THEN <<>>
    ELSE LET dm == DivMod(n, Pow(base, ChunkLen))
         IN  TextChunks(dm.q, base) \o ChunkText(dm.r, base)

\* big.Int.Text(base): lower case, no leading zeros, "0" for zero.
Text(n, base) ==
    LET str == TextChunks(n, base)
        nz == {i \in 1..Len(str) : str[i] # "0"}
    IN  IF nz = {} THEN <<"0">> ELSE SubSeq(str, Min(nz), Len(str))

\* The scan of big.Int.SetString: the position after the digits of the base
\* that str has from position first on.
DigitsEnd(str, base, first) ==
    Min({i \in first..(Len(str) + 1) : i > Len(str) \/ DigitValue(str[i], base) < 0})

\* The value of the digits of str at the positions lo..hi, at most ChunkLen.
RECURSIVE ChunkValue(_, _, _, _)
ChunkValue(str, base, lo, hi) ==
    IF hi < lo THEN 0
    ELSE ChunkValue(str, base, lo, hi - 1) * base + DigitValue(str[hi], base)

\* The value of the digits of str at the positions first..last.
RECURSIVE DigitsValue(_, _, _, _)
DigitsValue(str, base, first, last) ==
    IF last < first THEN <<>>
    ELSE LET lo == IF last - first >= ChunkLen THEN last - ChunkLen + 1 ELSE first
             p == DigitsValue(str, base, first, lo - 1)
         IN  IF p = <<>> THEN NatLimbs(ChunkValue(str, base, lo, last))
             ELSE MulAdd(p, Pow(base, last - lo + 1), ChunkValue(str, base, lo, last))

\* big.Int.SetString(str, base) for the values that are not negative: an
\* optional "+", then at least one digit, and nothing after the digits.
\* When ok is FALSE the documentation leaves the receiver undefined; val is
\* then what the scan had read.
SetString(str, base) ==
    LET first == IF str # <<>> /\ str[1] = "+" THEN 2 ELSE 1
        next == DigitsEnd(str, base, first)
    IN  [ok |-> next > first /\ next > Len(str),
         val |-> Normalize(DigitsValue(str, base, first, next - 1))]

\* fmt.Sprintf("%0[1]*s", width, str): zeros on the left up to the width,
\* a longer string as it is.
PadZeroNone(str, width) == str

PadZero(str, width) ==
    IF Len(str) >= width THEN str
    ELSE [i \in 1..(width - Len(str)) |-> "0"] \o str

\* strings.Split(str, sep) for a separator of one character: the pieces
\* between the separators, one more than there are separators.
Split(str, sep) ==
    LET seps == {i \in 1..Len(str) : str[i] = sep}
        \* the position of the j-th separator; 0 and Len(str) + 1 at the ends
        at(j) == IF j = 0 THEN 0
                 ELSE IF j > Cardinality(seps) THEN Len(str) + 1
                 ELSE CHOOSE p \in seps : Cardinality({q \in seps : q < p}) = j - 1
    IN  [j \in 1..(Cardinality(seps) + 1) |-> SubSeq(str, at(j - 1) + 1, at(j) - 1)]

\* sha256 digest of a root certificate, "sha256:" and 64 hexadecimal
\* characters; the empty string is Go's zero digest.Digest.  The digest of
\* R2 starts with zeros.
NoDigest == <<>>
DigestAlgorithm == <<"s", "h", "a", "2", "5", "6", ":">>
RootDigestHex(r) ==
    IF r = "R1" THEN [i \in 1..DigestHexLen |-> LowerDigits[((i * 7) % 16) + 1]]
    ELSE [i \in 1..DigestHexLen |-> IF i <= 3 THEN "0" ELSE LowerDigits[((i * 5 + 3) % 16) + 1]]
Digest(r) == DigestAlgorithm \o RootDigestHex(r)
\* digest.Digest.Hex(): what follows the colon.
Hex(d) == SubSeq(d, Len(DigestAlgorithm) + 1, Len(d))

\* A *RootCA as the code sees it; Pool = "nil" is a nil *x509.CertPool.
NilPool == "nil"
RootCAOf(r, canSign) == [Cert |-> r, Pool |-> r, Digest |-> Digest(r), CanSign |-> canSign]
NoRootCA == [Cert |-> "", Pool |-> NilPool, Digest |-> NoDigest, CanSign |-> FALSE]

\* tls.Certificate, *tls.Config
NoKeyPair == [nil |-> TRUE]
KeyPair(cert, key) == [nil |-> FALSE, cert |-> cert, key |-> key]
NilConfig == [nil |-> TRUE]

\* An error value; NoErr is Go's nil error.
NoErr == ""

(***************************************************************************)
(* Paths layout.                                                           *)
(***************************************************************************)
NewConfigPaths ==
    [Node |-> [Cert |-> nodeTLSCertFilename, Key |-> nodeTLSKeyFilename],
     RootCA |-> [Cert |-> rootCACertFilename, Key |-> rootCAKeyFilename]]

genTempPaths(path) == [Key |-> "." \o path.Key, Cert |-> "." \o path.Cert]

Files ==
    {NewConfigPaths.RootCA.Cert, NewConfigPaths.RootCA.Key,
     NewConfigPaths.Node.Cert, NewConfigPaths.Node.Key,
     genTempPaths(NewConfigPaths.Node).Cert, genTempPaths(NewConfigPaths.Node).Key}

(***************************************************************************)
(* TLS configurations.                                                     *)
(***************************************************************************)
NewServerTLSConfig(cert, rootCAPool) ==
    IF rootCAPool = NilPool
    THEN [cfg |-> NilConfig, err |-> "valid root CA pool required"]
    ELSE [cfg |-> [nil |-> FALSE, ServerName |-> "", Certificates |-> cert,
                   ClientAuth |-> "VerifyClientCertIfGiven",
                   RootCAs |-> rootCAPool, ClientCAs |-> rootCAPool,
                   MinVersion |-> VersionTLS12],
          err |-> NoErr]

NewClientTLSConfig(cert, rootCAPool, serverName) ==
    IF rootCAPool = NilPool
    THEN [cfg |-> NilConfig, err |-> "valid root CA pool required"]
    ELSE [cfg |-> [nil |-> FALSE, ServerName |-> serverName, Certificates |-> cert,
                   ClientAuth |-> "NoClientCert",
                   RootCAs |-> rootCAPool, ClientCAs |-> NilPool,
                   MinVersion |-> VersionTLS12],
          err |-> NoErr]

\* The external CA's client configuration: the client configuration's
\* certificates and roots, no ServerName.
ExternalCATLSConfig(clientTLSConfig) ==
    [nil |-> FALSE, ServerName |-> "", Certificates |-> clientTLSConfig.Certificates,
     ClientAuth |-> "NoClientCert",
     RootCAs |-> clientTLSConfig.RootCAs, ClientCAs |-> NilPool,
     MinVersion |-> VersionTLS12]

\* What MutableTLSCreds.LoadNewTLSConfig (and NewMutableTLS) require of a
\* configuration: certificates, a root pool, TLS >= 1.2.
ValidTLSConfig(cfg) ==
    /\ ~cfg.nil
    /\ ~cfg.Certificates.nil
    /\ cfg.RootCAs # NilPool
    /\ cfg.MinVersion >= VersionTLS12

NewMutableTLS(cfg) ==
    IF ValidTLSConfig(cfg) THEN [creds |-> cfg, err |-> NoErr]
    ELSE [creds |-> NilConfig, err |-> "invalid TLS configuration"]

NewClientTLSCredentials(rca, cert, serverName) ==
    LET c == NewClientTLSConfig(cert, rca.Pool, serverName)
    IN  IF c.err # NoErr THEN [creds |-> NilConfig, err |-> c.err]
        ELSE NewMutableTLS(c.cfg)

NewServerTLSCredentials(rca, cert) ==
    LET c == NewServerTLSConfig(cert, rca.Pool)
    IN  IF c.err # NoErr THEN [creds |-> NilConfig, err |-> c.err]
        ELSE NewMutableTLS(c.cfg)

NewSecurityConfig(rootCA, clientTLSCreds, serverTLSCreds) ==
    [nil |-> FALSE, rootCA |-> rootCA,
     externalCA |-> ExternalCATLSConfig(clientTLSCreds),
     ClientTLSCreds |-> clientTLSCreds,
     ServerTLSCreds |-> serverTLSCreds]

(***************************************************************************)
(* Credential files.                                                       *)
(***************************************************************************)
\* x509.Certificate.Verify with Roots: pool: signed by a root of the pool
\* and not expired (exp: the serials of the certificates that have expired).
X509Verify(cert, pool, exp) ==
    /\ cert.st = "cert"
    /\ pool # NilPool
    /\ cert.issuer = pool
    /\ cert.serial \notin exp

\* tls.X509KeyPair: both parse and the key is the certificate's.
X509KeyPairOK(cert, key) ==
    /\ cert.st = "cert"
    /\ key.st = "key"
    /\ key.serial = cert.serial

LoadTLSCredsNoFallback(rootCA, paths, fs, exp) ==
    LET cert == fs[paths.Cert]
        key == fs[paths.Key]
        fail(e) == [err |-> e, keyPair |-> NoKeyPair, client |-> NilConfig, server |-> NilConfig]
    IN  IF cert.st = "absent" THEN fail("read cert: no such file")
        ELSE IF key.st = "absent" THEN fail("read key: no such file")
        ELSE IF cert.st # "cert" THEN fail("failed to parse certificate PEM")
        ELSE IF ~X509Verify(cert, rootCA.Pool, exp) THEN fail("x509: verify")
        ELSE IF ~X509KeyPairOK(cert, key) THEN fail("tls: private key does not match")
        ELSE LET keyPair == KeyPair(cert, key)
                 server == NewServerTLSCredentials(rootCA, keyPair)
                 client == NewClientTLSCredentials(rootCA, keyPair, ManagerRole)
             IN  IF server.err # NoErr THEN fail(server.err)
                 ELSE IF client.err # NoErr THEN fail(client.err)
                 ELSE [err |-> NoErr, keyPair |-> keyPair,
                       client |-> client.creds, server |-> server.creds]

LoadTLSCreds(rootCA, paths, fs, exp) ==
    LET cert == fs[paths.Cert]
        key == fs[paths.Key]
        fail(e) == [err |-> e, keyPair |-> NoKeyPair, client |-> NilConfig, server |-> NilConfig]
    IN  IF cert.st = "absent" THEN fail("read cert: no such file")
        ELSE IF key.st = "absent" THEN fail("read key: no such file")
        ELSE IF cert.st # "cert" THEN fail("failed to parse certificate PEM")
        ELSE IF ~X509Verify(cert, rootCA.Pool, exp) THEN fail("x509: verify")
        ELSE LET tempPaths == genTempPaths(paths)
                 tempKey == fs[tempPaths.Key]
                 first == X509KeyPairOK(cert, key)
             IN  IF ~first /\ tempKey.st = "absent"
                 THEN fail("tls: private key does not match")
                 ELSE IF ~first /\ ~X509KeyPairOK(cert, tempKey)
                 THEN fail("tls: private key does not match")
                 ELSE LET keyPair == KeyPair(cert, IF first THEN key ELSE tempKey)
                          server == NewServerTLSCredentials(rootCA, keyPair)
                          client == NewClientTLSCredentials(rootCA, keyPair, ManagerRole)
                      IN  IF server.err # NoErr THEN fail(server.err)
                          ELSE IF client.err # NoErr THEN fail(client.err)
                          ELSE [err |-> NoErr, keyPair |-> keyPair,
                                client |-> client.creds, server |-> server.creds]

\* readCertValidity: parses the node certificate; fails when it cannot.
readCertValidity(paths, fs) ==
    IF fs[paths.Cert].st = "cert"
    THEN [err |-> NoErr, serial |-> fs[paths.Cert].serial]
    ELSE [err |-> "failed to read certificate", serial |-> 0]

(***************************************************************************)
(* Join tokens, as the segments strings.Split(token, "-") yields.          *)
(***************************************************************************)
\* strings.ToLower on the letters A..Z.
ToLowerNone(str) == str

ToLower(str) ==
    [i \in 1..Len(str) |->
        IF \E k \in 11..36 : UpperDigits[k] = str[i]
        THEN LowerDigits[CHOOSE k \in 11..36 : UpperDigits[k] = str[i]]
        ELSE str[i]]

\* The characters of the role constants.
ManagerRoleChars == <<"s", "w", "a", "r", "m", "-", "m", "a", "n", "a", "g", "e", "r">>
WorkerRoleChars == <<"s", "w", "a", "r", "m", "-", "w", "o", "r", "k", "e", "r">>
CARoleChars == <<"s", "w", "a", "r", "m", "-", "c", "a">>
RoleChars(role) ==
    CASE role = ManagerRole -> ManagerRoleChars
      [] role = WorkerRole -> WorkerRoleChars
      [] role = CARole -> CARoleChars
      [] OTHER -> <<>>

\* api.NodeRole on the wire.
NodeRoleWorker == 0
NodeRoleManager == 1

\* ParseRole(apiRole): the wire role to the role string.
ParseRole(apiRole) ==
    CASE apiRole = NodeRoleManager -> [role |-> ManagerRole, err |-> NoErr]
      [] apiRole = NodeRoleWorker -> [role |-> WorkerRole, err |-> NoErr]
      [] OTHER -> [role |-> "", err |-> "failed to parse api role"]

\* FormatRole(role): the role string to the wire role.
FormatRole(role) ==
    CASE ToLower(role) = ToLower(ManagerRoleChars) -> [apiRole |-> NodeRoleManager, err |-> NoErr]
      [] ToLower(role) = ToLower(WorkerRoleChars) -> [apiRole |-> NodeRoleWorker, err |-> NoErr]
      [] OTHER -> [apiRole |-> 0, err |-> "failed to parse role"]

\* digest.ParseDigest on "sha256:" and a hexadecimal string.
ParseDigest(hex) ==
    IF Len(hex) = DigestHexLen /\ \A i \in 1..Len(hex) : DigitValue(hex[i], 16) >= 0
    THEN [d |-> DigestAlgorithm \o hex, err |-> NoErr]
    ELSE [d |-> NoDigest, err |-> "invalid checksum digest length"]

TokenPrefix == <<"S", "W", "M", "T", "K", "N">>
TokenVersion == <<"1">>

\* GenerateJoinToken with the digest written in base 16.
GenerateJoinTokenBase16(rootCA, nn) ==
    LET digest == SetString(Hex(rootCA.Digest), 16).val
    IN  TokenPrefix \o <<"-">> \o TokenVersion \o <<"-">>
           \o PadZero(Text(digest, 16), base36DigestLen) \o <<"-">>
           \o PadZero(Text(nn, joinTokenBase), maxGeneratedSecretLength)

\* GenerateJoinToken(rootCA), nn being the integer of the random secretBytes.
GenerateJoinToken(rootCA, nn) ==
    LET digest == SetString(Hex(rootCA.Digest), 16).val
    IN  TokenPrefix \o <<"-">> \o TokenVersion \o <<"-">>
           \o PadZero(Text(digest, joinTokenBase), base36DigestLen) \o <<"-">>
           \o PadZero(Text(nn, joinTokenBase), maxGeneratedSecretLength)

\* getCAHashFromToken(token).  The result of digestInt.SetString is not
\* looked at: when it fails, digestInt is zero or what the scan had read
\* (keep).
getCAHashFromToken(token, keep) ==
    LET split == Split(token, "-")
    IN  IF Len(split) # 4 \/ split[1] # TokenPrefix \/ split[2] # TokenVersion
        THEN [d |-> NoDigest, err |-> "invalid join token"]
        ELSE LET parsed == SetString(split[3], joinTokenBase)
                 digestInt == IF parsed.ok \/ keep THEN parsed.val ELSE <<>>
             IN  ParseDigest(PadZero(Text(digestInt, 16), DigestHexLen))

\* The tokens a node is started with: none, the cluster's token, a token
\* that has lost its secret.
EmptyToken == <<>>
TokenSecret == <<1, 2, 3>>
JoinToken(r) == GenerateJoinToken(RootCAOf(r, FALSE), TokenSecret)
Tokens == {EmptyToken, JoinToken("R1"), SubSeq(JoinToken("R1"), 1, 59)}


(***************************************************************************)
(* Collaborators whose code is outside this package's file: the local and  *)
(* the remote root CA loaders, and the remote signer's answer.             *)
(***************************************************************************)
\* GetLocalRootCA: the root CA of the base directory, able to sign when the
\* root key file is there too.
GetLocalRootCA(fs) ==
    LET c == fs[NewConfigPaths.RootCA.Cert]
        k == fs[NewConfigPaths.RootCA.Key]
    IN  IF c.st = "absent" THEN [rootCA |-> NoRootCA, err |-> "ErrNoLocalRootCA"]
        ELSE IF c.st # "root" THEN [rootCA |-> NoRootCA, err |-> "failed to parse root CA"]
        ELSE [rootCA |-> RootCAOf(c.cert, k.st = "rootkey" /\ k.cert = c.cert),
              err |-> NoErr]

\* GetRemoteCA: resp is what the picked peer answers, "unreachable" or the
\* root it advertises; the root is checked against the pin d when d is set.
GetRemoteCA(d, resp) ==
    IF resp \notin Roots THEN [rootCA |-> NoRootCA, err |-> "rpc error"]
    ELSE IF d # NoDigest /\ Digest(resp) # d
    THEN [rootCA |-> NoRootCA, err |-> "remote CA does not match fingerprint"]
    ELSE [rootCA |-> RootCAOf(resp, FALSE), err |-> NoErr]

\* NewRootCA: fails on a certificate that does not parse.
NewRootCA(cert, key) ==
    IF cert \in Roots THEN [rootCA |-> RootCAOf(cert, key), err |-> NoErr]
    ELSE [rootCA |-> NoRootCA, err |-> "failed to parse root CA"]

\* What the remote signer may answer to a CSR for key pair k: no chain, or
\* a certificate for that key signed by some root, with a role it decides.
IssueResponses(k, cn) ==
    {NoFile} \cup {CertPEM(k, r, ro, cn) : r \in Roots, ro \in Roles}

(***************************************************************************)
(* State.                                                                  *)
(***************************************************************************)
VARIABLES
    disk,        \* file name -> content, survives a crash
    expired,     \* serial of the node certificate file, once its NotAfter has passed
    serial,      \* number of key pairs generated so far
    crashes,     \* number of crashes so far
    rot,         \* history: how the last rotation of the node files started
    boot,        \* LoadOrCreateSecurityConfig: position, arguments, locals
    s,           \* the SecurityConfig
    wr,          \* the write of a new cert/key pair in progress
    renew,       \* the renewal task: position and locals
    updates,     \* the updates channel
    cancelled,   \* ctx.Done() is closed
    renewCh,     \* a signal is waiting on the renew channel
    timerFired,  \* time.After(retry) has fired
    rootUpdates, \* number of UpdateRootCA calls so far
    call,        \* the last call of a function of the package made on its own
    adapter,     \* the containerAdapter: image, container, task, deleteResponse
    op,          \* the last operation of the adapter that returned, and its client calls
    remote,      \* history: what the containerd services were asked to delete
    ev           \* the goroutine of events, its stream and its channels

vars == <<disk, expired, serial, crashes, rot, boot, s, wr, renew, updates,
          cancelled, renewCh, timerFired, rootUpdates, call, adapter, op, remote, ev>>

adapterVars == <<adapter, op, remote, ev>>

NoSec == [nil |-> TRUE]
NoUpdate == [nil |-> TRUE]
CertificateUpdate(role, err) == [nil |-> FALSE, Role |-> role, Err |-> err]

EmptyDisk == [f \in Files |-> NoFile]
\* The base directories a node may start with: nothing; the root alone; the
\* root with its key (a signing node); the root and a node identity.
InitDisks ==
    {EmptyDisk,
     [EmptyDisk EXCEPT ![rootCACertFilename] = RootCertPEM("R1")],
     [EmptyDisk EXCEPT ![rootCACertFilename] = RootCertPEM("R1"),
                       ![rootCAKeyFilename] = RootKeyPEM("R1")],
     [EmptyDisk EXCEPT ![rootCACertFilename] = RootCertPEM("R1"),
                       ![nodeTLSCertFilename] = CertPEM(0, "R1", WorkerRole, 0),
                       ![nodeTLSKeyFilename] = KeyPEM(0)]}

\* The entry of LoadOrCreateSecurityConfig with its arguments.
BootEntry(token, proposedRole, sink) ==
    [pc |-> "start", token |-> token, proposedRole |-> proposedRole, sink |-> sink,
     d |-> NoDigest, i |-> 0, err |-> NoErr, rootCA |-> NoRootCA,
     tlsKeyPair |-> NoKeyPair, nodeInfo |-> <<>>,
     calls |-> 0, okCalls |-> 0, fetched |-> <<>>, wrote |-> {},
     loads |-> 0, requests |-> 0, issued |-> 0,
     localRoot |-> FALSE, loadOK |-> FALSE, cn |-> 0]

\* LoadOrCreateSecurityConfig has returned the SecurityConfig and its frame
\* is gone.
BootReturned == [BootEntry(EmptyToken, WorkerRole, FALSE) EXCEPT !.pc = "done"]

RenewOff ==
    [pc |-> "off", retry |-> [kind |-> "none"], rootCA |-> NoRootCA, tlsKeyPair |-> NoKeyPair,
     clientTLSConfig |-> NilConfig, serverTLSConfig |-> NilConfig,
     attErr |-> "none", trigger |-> "none", early |-> FALSE]

WrIdle == [pc |-> "idle", cert |-> NoFile, key |-> NoFile, by |-> "none"]
NoUpdates == [pending |-> NoUpdate, closed |-> FALSE]
NoCall == [fn |-> "none"]

\* A reference that is not set.
Nil == "nil"
\* c.deleteResponse before a task delete has succeeded.
NoDeleteResponse == [nil |-> TRUE, ExitStatus |-> 0]
\* newContainerAdapter(client, task, secrets)
newContainerAdapter ==
    [image |-> Nil, container |-> Nil, task |-> Nil, deleteResponse |-> NoDeleteResponse]
\* No operation has returned yet.
NoOp == [n |-> 0, fn |-> "none", err |-> NoErr, calls |-> <<>>, exit |-> 0,
         prepared |-> FALSE, taskFailed |-> FALSE]
NoRemote == [taskDeletes |-> 0, taskDeleteErrors |-> 0, containerDeletes |-> 0]
\* events has not been called.
NoEvent == [ID |-> "", seq |-> 0]
NoEvents == [pc |-> "none", ctxDone |-> FALSE, received |-> <<>>, evt |-> NoEvent,
             forwarded |-> <<>>, closed |-> FALSE, recvErr |-> FALSE, dropped |-> FALSE]
AdapterInit ==
    /\ adapter = newContainerAdapter
    /\ op = NoOp
    /\ remote = NoRemote
    /\ ev = NoEvents

Init ==
    /\ disk \in InitDisks
    /\ expired = {}
    /\ serial = 0
    /\ crashes = 0
    /\ rot = [startedValid |-> FALSE, root |-> NoRootCA]
    /\ \E token \in Tokens, role \in Roles, sink \in BOOLEAN :
           boot = BootEntry(token, role, sink)
    /\ s = NoSec
    /\ wr = WrIdle
    /\ renew = RenewOff
    /\ updates = NoUpdates
    /\ cancelled = FALSE
    /\ renewCh = FALSE
    /\ timerFired = FALSE
    /\ rootUpdates = 0
    /\ call = NoCall
    /\ AdapterInit

procVars == <<s, renew, updates, cancelled, renewCh, timerFired, rootUpdates>>
envVars == <<expired, crashes>>


(***************************************************************************)
(* LoadOrCreateSecurityConfig.                                             *)
(***************************************************************************)
\* The digest pin handed to GetRemoteCA: the token's digest; the zero
\* digest when the token is empty.
FetchPinTrustAll(b) == NoDigest

FetchPin(b) == b.d

\* One turn of the loop "for i := 0; i != 5; i++" around GetRemoteCA, and
\* the test of err after the loop: resp is the peer's answer, res is
\* GetRemoteCA's result.
FetchTurnNoBreak(b, resp, res) ==
    LET b1 == [b EXCEPT !.rootCA = res.rootCA, !.err = res.err,
                        !.calls = @ + 1,
                        !.okCalls = IF res.err = NoErr THEN @ + 1 ELSE @,
                        !.fetched = Append(@, [resp |-> resp, err |-> res.err]),
                        !.i = @ + 1]
    IN  IF b1.i # FetchAttempts THEN b1
        ELSE IF res.err # NoErr THEN [b1 EXCEPT !.pc = "failed"]
        ELSE [b1 EXCEPT !.pc = "saveRoot"]

FetchTurn(b, resp, res) ==
    LET b1 == [b EXCEPT !.rootCA = res.rootCA, !.err = res.err,
                        !.calls = @ + 1,
                        !.okCalls = IF res.err = NoErr THEN @ + 1 ELSE @,
                        !.fetched = Append(@, [resp |-> resp, err |-> res.err])]
    IN  IF res.err = NoErr THEN [b1 EXCEPT !.pc = "saveRoot"]
        ELSE IF b1.i + 1 # FetchAttempts THEN [b1 EXCEPT !.i = @ + 1]
        ELSE [b1 EXCEPT !.i = @ + 1, !.pc = "failed"]

\* rootCA, err = GetLocalRootCA(...); switch err; the token's digest.
BootGetLocalRootCA ==
    /\ boot.pc = "start"
    /\ \E keep \in BOOLEAN :
       LET r == GetLocalRootCA(disk)
           h == getCAHashFromToken(boot.token, keep)
       IN  boot' =
             IF r.err = NoErr
             THEN [boot EXCEPT !.rootCA = r.rootCA, !.localRoot = TRUE,
                               !.pc = "loadCreds"]
             ELSE IF r.err # "ErrNoLocalRootCA"
             THEN [boot EXCEPT !.err = r.err, !.pc = "failed"]
             ELSE IF boot.token # EmptyToken /\ h.err # NoErr
             THEN [boot EXCEPT !.err = h.err, !.pc = "failed"]
             ELSE [boot EXCEPT !.d = IF boot.token # EmptyToken THEN h.d ELSE NoDigest,
                               !.i = 0, !.pc = "fetch"]
    /\ UNCHANGED <<disk, rot, wr, serial, envVars, procVars>>
    /\ UNCHANGED <<call, adapterVars>>

\* rootCA, err = GetRemoteCA(ctx, d, remotes), inside the retry loop.
BootGetRemoteCA ==
    /\ boot.pc = "fetch"
    /\ \E resp \in Roots \cup {"unreachable"} :
           boot' = FetchTurn(boot, resp, GetRemoteCA(FetchPin(boot), resp))
    /\ UNCHANGED <<disk, rot, wr, serial, envVars, procVars>>
    /\ UNCHANGED <<call, adapterVars>>

\* saveRootCA(rootCA, paths.RootCA)
BootSaveRootCA ==
    /\ boot.pc = "saveRoot"
    /\ \E ioErr \in {NoErr, "write failed"} :
          IF ioErr = NoErr
          THEN /\ disk' = [disk EXCEPT ![NewConfigPaths.RootCA.Cert] =
                                           RootCertPEM(boot.rootCA.Cert)]
               /\ boot' = [boot EXCEPT !.pc = "loadCreds", !.fetched = <<>>,
                                       !.wrote = @ \cup {NewConfigPaths.RootCA.Cert}]
          ELSE /\ disk' = disk
               /\ boot' = [boot EXCEPT !.err = ioErr, !.pc = "failed", !.fetched = <<>>]
    /\ UNCHANGED <<rot, wr, serial, envVars, procVars>>
    /\ UNCHANGED <<call, adapterVars>>

\* The notifications sent on nodeInfo once the credentials have loaded:
\* if nodeInfo != nil { nodeInfo <- {clientTLSCreds.NodeID(), accepted} }
LoadedNodeInfoNone(sink, sent, clientTLSCreds) == sent

LoadedNodeInfo(sink, sent, clientTLSCreds) ==
    IF sink
    THEN Append(sent, [NodeID |-> clientTLSCreds.Certificates.cert.cn,
                       NodeMembership |-> "accepted"])
    ELSE sent

\* clientTLSCreds, serverTLSCreds, err = LoadTLSCreds(rootCA, paths.Node);
\* on success the nodeInfo notification and NewSecurityConfig.
BootLoadTLSCreds ==
    /\ boot.pc = "loadCreds"
    /\ LET r == LoadTLSCreds(boot.rootCA, NewConfigPaths.Node, disk, expired)
       IN  IF r.err = NoErr
           THEN /\ boot' = [boot EXCEPT
                       !.loads = @ + 1, !.pc = "done", !.loadOK = TRUE,
                       !.nodeInfo = LoadedNodeInfo(boot.sink, @, r.client)]
                /\ s' = NewSecurityConfig(boot.rootCA, r.client, r.server)
           ELSE /\ boot' = [boot EXCEPT
                       !.loads = @ + 1,
                       !.pc = IF boot.rootCA.CanSign THEN "newNodeID" ELSE "request"]
                /\ s' = s
    /\ UNCHANGED <<disk, rot, wr, serial, envVars, renew, updates, cancelled,
                   renewCh, timerFired, rootUpdates>>
    /\ UNCHANGED <<call, adapterVars>>

\* How a rotation of the node files starts: whether the primary pair was a
\* valid one under the issuing root.
RotStart(rootCA) ==
    [startedValid |-> /\ X509Verify(disk[NewConfigPaths.Node.Cert], rootCA.Pool, expired)
                      /\ X509KeyPairOK(disk[NewConfigPaths.Node.Cert],
                                       disk[NewConfigPaths.Node.Key]),
     root |-> rootCA]

\* cn := identity.NewID(), a node ID no certificate carries yet, and the
\* nodeInfo notification: if nodeInfo != nil { nodeInfo <- {cn, accepted} }
BootNewNodeID ==
    /\ boot.pc = "newNodeID"
    /\ serial < MaxCerts
    /\ LET cn == serial + 1
       IN  boot' = [boot EXCEPT
                  !.pc = "issueLocal", !.cn = cn,
                  !.nodeInfo = IF boot.sink
                               THEN Append(@, [NodeID |-> cn, NodeMembership |-> "accepted"])
                               ELSE @]
    /\ UNCHANGED <<disk, rot, wr, serial, envVars, procVars>>
    /\ UNCHANGED <<call, adapterVars>>

\* The certificate IssueAndSaveNewCertificates(paths.Node, cn, proposedRole, org)
\* signs for key pair k.
LocalCertificateAnyID(b, k) == CertPEM(k, b.rootCA.Cert, b.proposedRole, 0)

LocalCertificate(b, k) == CertPEM(k, b.rootCA.Cert, b.proposedRole, b.cn)

\* rootCA.IssueAndSaveNewCertificates(paths.Node, cn, proposedRole, org):
\* the key and the locally signed certificate, then the write of the pair.
BootIssueLocal ==
    /\ boot.pc = "issueLocal"
    /\ LET k == serial + 1
       IN  /\ serial' = k
           /\ boot' = [boot EXCEPT !.pc = "writing", !.issued = @ + 1]
           /\ wr' = [pc |-> "tmpCert", by |-> "boot", key |-> KeyPEM(k),
                     cert |-> LocalCertificate(boot, k)]
    /\ rot' = RotStart(boot.rootCA)
    /\ UNCHANGED <<disk, envVars, procVars>>
    /\ UNCHANGED <<call, adapterVars>>

\* A chain the requester accepts: it verifies under the requesting root's pool.
ChainAccepted(chain, rootCA) == chain.st = "cert" /\ chain.issuer = rootCA.Pool

\* rootCA.RequestAndSaveNewCertificates(ctx, paths.Node, token, remotes, nil, nodeInfo):
\* key and CSR, the signer's answer, its verification, then the write.
BootRequest ==
    /\ boot.pc = "request"
    /\ serial < MaxCerts
    /\ LET k == serial + 1
       IN  /\ serial' = k
           /\ \E chain \in IssueResponses(k, k) :
                 IF ChainAccepted(chain, boot.rootCA)
                 THEN /\ boot' = [boot EXCEPT !.pc = "writing", !.requests = @ + 1]
                      /\ wr' = [pc |-> "tmpCert", by |-> "boot", key |-> KeyPEM(k),
                                cert |-> chain]
                      /\ rot' = RotStart(boot.rootCA)
                 ELSE /\ boot' = [boot EXCEPT !.pc = "failed", !.requests = @ + 1,
                                              !.err = "failed to request certificate"]
                      /\ wr' = wr
                      /\ rot' = rot
    /\ UNCHANGED <<disk, envVars, procVars>>
    /\ UNCHANGED <<call, adapterVars>>

\* rootCA.NewServerTLSCredentials(tlsKeyPair), rootCA.NewClientTLSCredentials(
\* tlsKeyPair, ManagerRole), NewSecurityConfig.
BootNewCredentials ==
    /\ boot.pc = "newCreds"
    /\ LET server == NewServerTLSCredentials(boot.rootCA, boot.tlsKeyPair)
           client == NewClientTLSCredentials(boot.rootCA, boot.tlsKeyPair, ManagerRole)
       IN  IF server.err # NoErr
           THEN boot' = [boot EXCEPT !.err = server.err, !.pc = "failed"] /\ s' = s
           ELSE IF client.err # NoErr
           THEN boot' = [boot EXCEPT !.err = client.err, !.pc = "failed"] /\ s' = s
           ELSE /\ boot' = [boot EXCEPT !.pc = "done"]
                /\ s' = NewSecurityConfig(boot.rootCA, client.creds, server.creds)
    /\ UNCHANGED <<disk, rot, wr, serial, envVars, renew, updates, cancelled,
                   renewCh, timerFired, rootUpdates>>
    /\ UNCHANGED <<call, adapterVars>>


(***************************************************************************)
(* The write of a new pair: (1) the new certificate and the new key go to  *)
(* the sibling paths, (2) the sibling certificate is renamed over the      *)
(* primary one, (3) the sibling key is renamed over the primary one.       *)
(***************************************************************************)
WriteTempCert ==
    /\ wr.pc = "tmpCert"
    /\ disk' = [disk EXCEPT ![genTempPaths(NewConfigPaths.Node).Cert] = wr.cert]
    /\ wr' = [wr EXCEPT !.pc = "tmpKey"]
    /\ boot' = IF wr.by = "boot"
               THEN [boot EXCEPT !.wrote = @ \cup {genTempPaths(NewConfigPaths.Node).Cert}]
               ELSE boot
    /\ UNCHANGED <<rot, serial, envVars, procVars>>
    /\ UNCHANGED <<call, adapterVars>>

WriteTempKey ==
    /\ wr.pc = "tmpKey"
    /\ disk' = [disk EXCEPT ![genTempPaths(NewConfigPaths.Node).Key] = wr.key]
    /\ wr' = [wr EXCEPT !.pc = "renameCert"]
    /\ boot' = IF wr.by = "boot"
               THEN [boot EXCEPT !.wrote = @ \cup {genTempPaths(NewConfigPaths.Node).Key}]
               ELSE boot
    /\ UNCHANGED <<rot, serial, envVars, procVars>>
    /\ UNCHANGED <<call, adapterVars>>

RenameCert ==
    /\ wr.pc = "renameCert"
    /\ disk' = [disk EXCEPT
           ![NewConfigPaths.Node.Cert] = disk[genTempPaths(NewConfigPaths.Node).Cert],
           ![genTempPaths(NewConfigPaths.Node).Cert] = NoFile]
    /\ wr' = [wr EXCEPT !.pc = "renameKey"]
    /\ boot' = IF wr.by = "boot"
               THEN [boot EXCEPT !.wrote = @ \cup {NewConfigPaths.Node.Cert}]
               ELSE boot
    /\ expired' = {}
    /\ UNCHANGED <<rot, serial, crashes, procVars>>
    /\ UNCHANGED <<call, adapterVars>>

\* The last step; the caller gets the new tls.Certificate.
RenameKey ==
    /\ wr.pc = "renameKey"
    /\ disk' = [disk EXCEPT
           ![NewConfigPaths.Node.Key] = disk[genTempPaths(NewConfigPaths.Node).Key],
           ![genTempPaths(NewConfigPaths.Node).Key] = NoFile]
    /\ wr' = WrIdle
    /\ IF wr.by = "boot"
       THEN /\ boot' = [boot EXCEPT !.pc = "newCreds",
                                    !.tlsKeyPair = KeyPair(wr.cert, wr.key),
                                    !.wrote = @ \cup {NewConfigPaths.Node.Key}]
            /\ renew' = renew
       ELSE /\ renew' = [renew EXCEPT !.pc = "newClientConfig",
                                      !.tlsKeyPair = KeyPair(wr.cert, wr.key)]
            /\ boot' = boot
    /\ UNCHANGED <<rot, serial, envVars, s, updates, cancelled, renewCh,
                   timerFired, rootUpdates>>
    /\ UNCHANGED <<call, adapterVars>>

(***************************************************************************)
(* RenewTLSConfig and its task.  A send on the updates channel leaves the  *)
(* value in updates.pending: the task is blocked in the send, and takes no *)
(* step, until a receiver has taken the value.                             *)
(***************************************************************************)
Sending == ~updates.pending.nil

Send(u) == updates' = [updates EXCEPT !.pending = u]

\* RenewTLSConfig: makes the channel, starts the task.
RenewTLSConfig ==
    /\ boot.pc = "done"
    /\ renew.pc = "off"
    /\ renew' = [renew EXCEPT !.pc = "top"]
    /\ boot' = BootReturned
    /\ UNCHANGED <<disk, rot, wr, serial, envVars, s, updates, cancelled,
                   renewCh, timerFired, rootUpdates>>
    /\ UNCHANGED <<call, adapterVars>>

\* retry when validUntil.Before(time.Now()): the starting default is kept.
RetryWhenExpiredRandom == [kind |-> "random"]

RetryWhenExpired == [kind |-> "default", minutes |-> DefaultRetry]

\* The top of the loop: retry = 5 * time.Minute, readCertValidity, the
\* expired test, calculateRandomExpiry; up to the select.
RenewComputeRetry ==
    /\ renew.pc = "top"
    /\ ~Sending
    /\ LET v == readCertValidity(NewConfigPaths.Node, disk)
       IN  IF v.err # NoErr
           THEN /\ Send(CertificateUpdate("", "failed to read certificate expiration"))
                /\ renew' = [renew EXCEPT !.pc = "select", !.attErr = "none",
                                          !.trigger = "none",
                                          !.retry = [kind |-> "default", minutes |-> DefaultRetry]]
           ELSE IF v.serial \in expired
           THEN /\ Send(CertificateUpdate("", "TLS certificate is expired"))
                /\ renew' = [renew EXCEPT !.pc = "select", !.attErr = "none",
                                          !.trigger = "none",
                                          !.retry = RetryWhenExpired]
           ELSE /\ updates' = updates
                /\ renew' = [renew EXCEPT !.pc = "select", !.attErr = "none",
                                          !.trigger = "none",
                                          !.retry = [kind |-> "random"]]
    /\ timerFired' = FALSE
    /\ UNCHANGED <<disk, rot, boot, wr, serial, envVars, s, cancelled, renewCh,
                   rootUpdates>>
    /\ UNCHANGED <<call, adapterVars>>

\* case <-time.After(retry)
RenewSelectTimer ==
    /\ renew.pc = "select"
    /\ ~Sending
    /\ timerFired
    /\ serial < MaxCerts
    /\ renew' = [renew EXCEPT !.pc = "request", !.trigger = "timer"]
    /\ timerFired' = FALSE
    /\ UNCHANGED <<disk, rot, boot, wr, serial, envVars, s, updates, cancelled,
                   renewCh, rootUpdates>>
    /\ UNCHANGED <<call, adapterVars>>

\* case <-renew
RenewSelectRenew ==
    /\ renew.pc = "select"
    /\ ~Sending
    /\ renewCh
    /\ serial < MaxCerts
    /\ renewCh' = FALSE
    /\ renew' = [renew EXCEPT !.pc = "request", !.trigger = "renew",
                              !.early = ~timerFired]
    /\ timerFired' = FALSE
    /\ UNCHANGED <<disk, rot, boot, wr, serial, envVars, s, updates, cancelled,
                   rootUpdates>>
    /\ UNCHANGED <<call, adapterVars>>

\* case <-ctx.Done(): return, and the deferred close(updates).
RenewSelectDone ==
    /\ renew.pc = "select"
    /\ ~Sending
    /\ cancelled
    /\ renew' = [renew EXCEPT !.pc = "returned"]
    /\ updates' = [updates EXCEPT !.closed = TRUE]
    /\ timerFired' = FALSE
    /\ UNCHANGED <<disk, rot, boot, wr, serial, envVars, s, cancelled, renewCh,
                   rootUpdates>>
    /\ UNCHANGED <<call, adapterVars>>

\* Where the task goes when RequestAndSaveNewCertificates returns an error.
AfterRequestErrorReturn == "returned"

AfterRequestError == "top"

\* SecurityConfig.RootCA(): the root CA the SecurityConfig holds.
RootCA(sec) == sec.rootCA

\* rootCA := s.RootCA(); rootCA.RequestAndSaveNewCertificates(ctx, paths.Node,
\* "", remotes, s.ClientTLSCreds, nil): key and CSR, the signer's answer and
\* its verification; on an error the update and continue.
RenewRequest ==
    /\ renew.pc = "request"
    /\ LET k == serial + 1
           rootCA == RootCA(s)
       IN  /\ serial' = k
           /\ \E chain \in IssueResponses(k, s.ClientTLSCreds.Certificates.cert.cn) :
                 IF ChainAccepted(chain, rootCA)
                 THEN /\ renew' = [renew EXCEPT !.pc = "writing", !.rootCA = rootCA]
                      /\ wr' = [pc |-> "tmpCert", by |-> "renew", key |-> KeyPEM(k),
                                cert |-> chain]
                      /\ rot' = RotStart(rootCA)
                      /\ updates' = updates
                 ELSE /\ renew' = [RenewOff EXCEPT !.pc = AfterRequestError,
                                                  !.attErr = "request"]
                      /\ Send(CertificateUpdate("", "failed to renew the certificate"))
                      /\ UNCHANGED <<wr, rot>>
    /\ UNCHANGED <<disk, boot, envVars, s, cancelled, renewCh, timerFired,
                   rootUpdates>>
    /\ UNCHANGED <<call, adapterVars>>


\* clientTLSConfig, err := NewClientTLSConfig(tlsKeyPair, rootCA.Pool, CARole),
\* and the update on an error.
RenewPoolCurrent(r) == s.rootCA.Pool

RenewPool(r) == r.rootCA.Pool

RenewNewClientTLSConfig ==
    /\ renew.pc = "newClientConfig"
    /\ LET c == NewClientTLSConfig(renew.tlsKeyPair, RenewPool(renew), CARole)
       IN  /\ renew' = [renew EXCEPT !.pc = "newServerConfig", !.clientTLSConfig = c.cfg,
                                     !.attErr = IF c.err # NoErr /\ @ = "none"
                                                THEN "newClientConfig" ELSE @]
           /\ IF c.err # NoErr THEN Send(CertificateUpdate("", c.err))
              ELSE updates' = updates
    /\ UNCHANGED <<disk, rot, boot, wr, serial, envVars, s, cancelled, renewCh,
                   timerFired, rootUpdates>>
    /\ UNCHANGED <<call, adapterVars>>

\* serverTLSConfig, err := NewServerTLSConfig(tlsKeyPair, rootCA.Pool)
RenewNewServerTLSConfig ==
    /\ renew.pc = "newServerConfig"
    /\ ~Sending
    /\ LET c == NewServerTLSConfig(renew.tlsKeyPair, RenewPool(renew))
       IN  /\ renew' = [renew EXCEPT !.pc = "loadClient", !.serverTLSConfig = c.cfg,
                                     !.attErr = IF c.err # NoErr /\ @ = "none"
                                                THEN "newServerConfig" ELSE @]
           /\ IF c.err # NoErr THEN Send(CertificateUpdate("", c.err))
              ELSE updates' = updates
    /\ UNCHANGED <<disk, rot, boot, wr, serial, envVars, s, cancelled, renewCh,
                   timerFired, rootUpdates>>
    /\ UNCHANGED <<call, adapterVars>>

\* MutableTLSCreds.LoadNewTLSConfig(cfg): refuses a configuration that is
\* not valid, and may refuse (refuse) for what it finds in the certificate;
\* otherwise the new configuration replaces the old one.
LoadNewTLSConfig(creds, cfg, refuse) ==
    IF ~ValidTLSConfig(cfg) \/ refuse
    THEN [creds |-> creds, err |-> "invalid TLS configuration"]
    ELSE [creds |-> cfg, err |-> NoErr]

\* err = s.ClientTLSCreds.LoadNewTLSConfig(clientTLSConfig)
RenewLoadClient ==
    /\ renew.pc = "loadClient"
    /\ ~Sending
    /\ \E refuse \in BOOLEAN :
          LET r == LoadNewTLSConfig(s.ClientTLSCreds, renew.clientTLSConfig, refuse)
          IN  /\ s' = [s EXCEPT !.ClientTLSCreds = r.creds]
              /\ renew' = [renew EXCEPT !.pc = "updateExternalCA",
                                        !.attErr = IF r.err # NoErr /\ @ = "none"
                                                   THEN "loadClient" ELSE @]
              /\ IF r.err # NoErr THEN Send(CertificateUpdate("", r.err))
                 ELSE updates' = updates
    /\ UNCHANGED <<disk, rot, boot, wr, serial, envVars, cancelled, renewCh,
                   timerFired, rootUpdates>>
    /\ UNCHANGED <<call, adapterVars>>

\* s.externalCA.UpdateTLSConfig(&tls.Config{Certificates: clientTLSConfig.Certificates,
\* RootCAs: clientTLSConfig.RootCAs, ...}); a nil clientTLSConfig is a nil
\* dereference, which ends the process.
RenewUpdateExternalCA ==
    /\ renew.pc = "updateExternalCA"
    /\ ~Sending
    /\ IF renew.clientTLSConfig.nil
       THEN /\ renew' = [renew EXCEPT !.pc = "panic"]
            /\ s' = s
       ELSE /\ renew' = [renew EXCEPT !.pc = "loadServer"]
            /\ s' = [s EXCEPT !.externalCA = ExternalCATLSConfig(renew.clientTLSConfig)]
    /\ UNCHANGED <<disk, rot, boot, wr, serial, envVars, updates, cancelled,
                   renewCh, timerFired, rootUpdates>>
    /\ UNCHANGED <<call, adapterVars>>

\* err = s.ServerTLSCreds.LoadNewTLSConfig(serverTLSConfig)
ServerCredsKept(creds, cfg, refuse) == [creds |-> creds, err |-> NoErr]

ServerCredsLoad(creds, cfg, refuse) == LoadNewTLSConfig(creds, cfg, refuse)

RenewLoadServer ==
    /\ renew.pc = "loadServer"
    /\ \E refuse \in BOOLEAN :
          LET r == ServerCredsLoad(s.ServerTLSCreds, renew.serverTLSConfig, refuse)
          IN  /\ s' = [s EXCEPT !.ServerTLSCreds = r.creds]
              /\ renew' = [renew EXCEPT !.pc = "publish",
                                        !.attErr = IF r.err # NoErr /\ @ = "none"
                                                   THEN "loadServer" ELSE @]
              /\ IF r.err # NoErr THEN Send(CertificateUpdate("", r.err))
                 ELSE updates' = updates
    /\ UNCHANGED <<disk, rot, boot, wr, serial, envVars, cancelled, renewCh,
                   timerFired, rootUpdates>>
    /\ UNCHANGED <<call, adapterVars>>

\* updates <- CertificateUpdate{Role: s.ClientTLSCreds.Role()}
RenewPublishRole ==
    /\ renew.pc = "publish"
    /\ ~Sending
    /\ Send(CertificateUpdate(s.ClientTLSCreds.Certificates.cert.role, NoErr))
    /\ renew' = [RenewOff EXCEPT !.pc = "top", !.attErr = renew.attErr]
    /\ UNCHANGED <<disk, rot, boot, wr, serial, envVars, s, cancelled, renewCh,
                   timerFired, rootUpdates>>
    /\ UNCHANGED <<call, adapterVars>>

(***************************************************************************)
(* The callers and the environment of the node.                            *)
(***************************************************************************)
\* The consumer of the updates channel receives the value being sent.
UpdatesReceive ==
    /\ Sending
    /\ updates' = [updates EXCEPT !.pending = NoUpdate]
    /\ UNCHANGED <<disk, rot, boot, wr, serial, envVars, s, renew, cancelled,
                   renewCh, timerFired, rootUpdates>>
    /\ UNCHANGED <<call, adapterVars>>

\* The context of RenewTLSConfig is cancelled.
Cancel ==
    /\ renew.pc \notin {"off", "returned", "panic"}
    /\ ~cancelled
    /\ cancelled' = TRUE
    /\ UNCHANGED <<disk, rot, boot, wr, serial, envVars, s, renew, updates,
                   renewCh, timerFired, rootUpdates>>
    /\ UNCHANGED <<call, adapterVars>>

\* A caller signals on the renew channel.  The task looks at the channel
\* only in its select, so a signal sent earlier is one that waits until then.
ForceRenew ==
    /\ renew.pc = "select"
    /\ ~renewCh
    /\ renewCh' = TRUE
    /\ UNCHANGED <<disk, rot, boot, wr, serial, envVars, s, renew, updates,
                   cancelled, timerFired, rootUpdates>>
    /\ UNCHANGED <<call, adapterVars>>

\* The retry interval has passed while the task waits in the select.
TimerFire ==
    /\ renew.pc = "select"
    /\ ~timerFired
    /\ timerFired' = TRUE
    /\ UNCHANGED <<disk, rot, boot, wr, serial, envVars, s, renew, updates,
                   cancelled, renewCh, rootUpdates>>
    /\ UNCHANGED <<call, adapterVars>>

\* UpdateRootCA after NewRootCA: if err == nil { s.rootCA = &rootCA }
UpdatedRootCAAlways(sec, r) == [sec EXCEPT !.rootCA = r.rootCA]

UpdatedRootCA(sec, r) == IF r.err = NoErr THEN [sec EXCEPT !.rootCA = r.rootCA] ELSE sec

\* SecurityConfig.UpdateRootCA(cert, key, ...), called by the owner of the
\* SecurityConfig; call keeps what it was given and what it returned.
UpdateRootCA ==
    /\ boot.pc = "done"
    /\ rootUpdates < MaxRootUpdates
    /\ rootUpdates' = rootUpdates + 1
    /\ \E cert \in Roots \cup {"garbage"} :
          LET r == NewRootCA(cert, FALSE)
          IN  /\ s' = UpdatedRootCA(s, r)
              /\ call' = [fn |-> "UpdateRootCA", cert |-> cert, err |-> r.err]
              /\ UNCHANGED adapterVars
    /\ UNCHANGED <<disk, rot, boot, wr, serial, envVars, renew, updates,
                   cancelled, renewCh, timerFired>>

\* The node certificate on disk passes its NotAfter.  Only the certificate
\* in the primary file is ever tested for expiry, and a certificate that
\* replaces it is a new one, so RenameCert empties the set.
Expire ==
    /\ disk[NewConfigPaths.Node.Cert].st = "cert"
    /\ disk[NewConfigPaths.Node.Cert].serial \notin expired
    /\ expired' = expired \cup {disk[NewConfigPaths.Node.Cert].serial}
    /\ UNCHANGED <<disk, rot, boot, wr, serial, crashes, procVars>>
    /\ UNCHANGED <<call, adapterVars>>

\* The process dies at any point and the node is started again: the files
\* stay, everything in memory is lost.  A death in the middle of the write
\* of a sibling file may leave that file torn.
Crash ==
    /\ crashes < MaxCrashes
    /\ crashes' = crashes + 1
    /\ \E torn \in BOOLEAN :
           disk' = IF torn /\ wr.pc = "tmpCert"
                   THEN [disk EXCEPT ![genTempPaths(NewConfigPaths.Node).Cert] = Corrupt]
                   ELSE IF torn /\ wr.pc = "tmpKey"
                   THEN [disk EXCEPT ![genTempPaths(NewConfigPaths.Node).Key] = Corrupt]
                   ELSE disk
    /\ \E token \in Tokens, role \in Roles, sink \in BOOLEAN :
           boot' = BootEntry(token, role, sink)
    /\ s' = NoSec
    /\ wr' = WrIdle
    /\ renew' = RenewOff
    /\ updates' = NoUpdates
    /\ cancelled' = FALSE
    /\ renewCh' = FALSE
    /\ timerFired' = FALSE
    /\ rootUpdates' = 0
    /\ call' = NoCall
    /\ UNCHANGED adapterVars
    /\ UNCHANGED <<rot, serial, expired>>

Next ==
    \/ BootGetLocalRootCA
    \/ BootGetRemoteCA
    \/ BootSaveRootCA
    \/ BootLoadTLSCreds
    \/ BootNewNodeID
    \/ BootIssueLocal
    \/ BootRequest
    \/ BootNewCredentials
    \/ WriteTempCert
    \/ WriteTempKey
    \/ RenameCert
    \/ RenameKey
    \/ RenewTLSConfig
    \/ RenewComputeRetry
    \/ RenewSelectTimer
    \/ RenewSelectRenew
    \/ RenewSelectDone
    \/ RenewRequest
    \/ RenewNewClientTLSConfig
    \/ RenewNewServerTLSConfig
    \/ RenewLoadClient
    \/ RenewUpdateExternalCA
    \/ RenewLoadServer
    \/ RenewPublishRole
    \/ UpdatesReceive
    \/ Cancel
    \/ ForceRenew
    \/ TimerFire
    \/ UpdateRootCA
    \/ Expire
    \/ Crash

Spec == Init /\ [][Next]_vars

\* The steps of the renewal task and of the write it waits for.  The task
\* is a goroutine: it takes its next step whenever it can.  Nothing obliges
\* the consumer to receive from the updates channel, the owner to cancel, or
\* the environment to act.
TaskStep ==
    \/ RenewComputeRetry
    \/ RenewRequest
    \/ WriteTempCert
    \/ WriteTempKey
    \/ RenameCert
    \/ RenameKey
    \/ RenewNewClientTLSConfig
    \/ RenewNewServerTLSConfig
    \/ RenewLoadClient
    \/ RenewUpdateExternalCA
    \/ RenewLoadServer
    \/ RenewPublishRole

LiveSpec == Spec /\ WF_vars(TaskStep) /\ SF_vars(RenewSelectDone)

(***************************************************************************)
(* Properties.                                                             *)
(***************************************************************************)
NodeCertFile == disk[NewConfigPaths.Node.Cert]
NodeKeyFile == disk[NewConfigPaths.Node.Key]
TempKeyFile == disk[genTempPaths(NewConfigPaths.Node).Key]

\* C1: a rotation that started from a valid primary pair leaves, at every
\* point of the write and after a death at any point of it, files from
\* which LoadTLSCreds under the rotation's root returns a matching pair
\* that verifies, as long as the primary certificate has not expired: the
\* primary certificate with the primary key when they pair, with the
\* sibling key otherwise.
C1_RotationCrashSafe ==
    (rot.startedValid /\ X509Verify(NodeCertFile, rot.root.Pool, expired)) =>
        LET r == LoadTLSCreds(rot.root, NewConfigPaths.Node, disk, expired)
        IN  /\ r.err = NoErr
            /\ X509KeyPairOK(r.keyPair.cert, r.keyPair.key)
            /\ X509Verify(r.keyPair.cert, rot.root.Pool, expired)
            /\ r.keyPair.cert = NodeCertFile
            /\ r.keyPair.key = IF X509KeyPairOK(NodeCertFile, NodeKeyFile)
                               THEN NodeKeyFile ELSE TempKeyFile
            /\ r.client.Certificates = r.keyPair
            /\ r.server.Certificates = r.keyPair

\* The node died between the two renames of a rotation that started from a
\* valid pair, and the restart has loaded the new certificate with the
\* sibling key.
C1_Witness ==
    /\ rot.startedValid
    /\ crashes > 0
    /\ boot.pc = "done"
    /\ boot.loads = 1
    /\ ~X509KeyPairOK(NodeCertFile, NodeKeyFile)
    /\ s.ClientTLSCreds.Certificates = KeyPair(NodeCertFile, TempKeyFile)

\* C2: with a primary certificate that verifies under the root on disk,
\* LoadTLSCreds falls back to the sibling key whenever the primary key is
\* absent or does not pair, and fails only when neither key pairs.
C2_SiblingKeyFallback ==
    LET root == GetLocalRootCA(disk).rootCA
        r == LoadTLSCreds(root, NewConfigPaths.Node, disk, expired)
    IN  (X509Verify(NodeCertFile, root.Pool, expired)
           /\ ~X509KeyPairOK(NodeCertFile, NodeKeyFile)) =>
            IF X509KeyPairOK(NodeCertFile, TempKeyFile)
            THEN r.err = NoErr /\ r.keyPair = KeyPair(NodeCertFile, TempKeyFile)
            ELSE r.err # NoErr

C4_CancelClosesUpdates == cancelled ~> (updates.closed \/ ~cancelled)

\* C5: when a sub-step of an attempt fails, the task publishes the error and
\* goes back to the top of the loop: no later sub-step of that attempt runs
\* and no role is published for it.
C5_ErrorEndsAttempt ==
    renew.attErr # "none" =>
        /\ renew.pc = "top"
        /\ Sending => updates.pending.Err # NoErr

\* C6: a signal on the renew channel taken by the waiting task starts an
\* issuance whether or not the timer has fired, and when the issuance and
\* both swaps of an attempt succeed, the client and the server credentials
\* of the SecurityConfig present the certificate that attempt obtained.
C6_RenewSignalRotates ==
    /\ [][(renew.pc = "select" /\ renewCh /\ ~renewCh' /\ crashes' = crashes)
            => (renew'.pc = "request" /\ renew'.early = ~timerFired)]_vars
    /\ []((renew.pc = "publish" /\ renew.attErr = "none") =>
            /\ s.ClientTLSCreds.Certificates = renew.tlsKeyPair
            /\ s.ServerTLSCreds.Certificates = renew.tlsKeyPair
            /\ renew.tlsKeyPair.cert = NodeCertFile
            /\ renew.tlsKeyPair.cert.serial = serial)

\* A renew signal came before the timer fired, and the attempt it started
\* has swapped both credentials.
C6_Witness ==
    /\ renew.pc = "publish"
    /\ renew.attErr = "none"
    /\ renew.trigger = "renew"
    /\ renew.early

\* The pcs of an attempt after its client configuration has been built.
AfterClientConfig == {"newServerConfig", "loadClient", "updateExternalCA", "loadServer", "publish"}

\* C7: the certificate of every installed configuration chains to the pool
\* of that same configuration, whatever UpdateRootCA calls come in between:
\* an attempt builds its configurations from the pool of the root CA it read
\* at its start.
C7_ChainMatchesPool ==
    /\ ~s.nil =>
         \A c \in {s.ClientTLSCreds, s.ServerTLSCreds} :
            /\ X509Verify(c.Certificates.cert, c.RootCAs, {})
            /\ X509KeyPairOK(c.Certificates.cert, c.Certificates.key)
    /\ (renew.pc \in AfterClientConfig /\ ~renew.clientTLSConfig.nil) =>
         /\ renew.clientTLSConfig.RootCAs = renew.rootCA.Pool
         /\ X509Verify(renew.clientTLSConfig.Certificates.cert, renew.clientTLSConfig.RootCAs, {})
    /\ (renew.pc \in AfterClientConfig \ {"newServerConfig"} /\ ~renew.serverTLSConfig.nil) =>
         /\ renew.serverTLSConfig.RootCAs = renew.rootCA.Pool
         /\ X509Verify(renew.serverTLSConfig.Certificates.cert, renew.serverTLSConfig.RootCAs, {})

\* UpdateRootCA has replaced the root while an attempt ran, and the attempt
\* has installed its certificate with the pool it started from.
C7_Witness ==
    /\ renew.pc = "publish"
    /\ renew.attErr = "none"
    /\ rootUpdates > 0
    /\ s.rootCA.Pool # renew.rootCA.Pool
    /\ s.ClientTLSCreds.RootCAs = renew.rootCA.Pool
    /\ s.ServerTLSCreds.RootCAs = renew.rootCA.Pool

\* C8: at most 5 GetRemoteCA calls, none after the first that succeeds; when
\* all 5 fail the bootstrap fails with the last call's error, no file
\* written and no credential load or certificate request made.
C8_FetchAtMostFive ==
    /\ boot.calls <= FetchAttempts
    /\ boot.okCalls <= 1
    /\ boot.okCalls = 1 => boot.pc # "fetch"
    /\ (boot.calls = FetchAttempts /\ boot.okCalls = 0) =>
         /\ boot.pc = "failed"
         /\ boot.err = boot.fetched[FetchAttempts].err
         /\ boot.err # NoErr
         /\ boot.wrote = {}
         /\ boot.loads = 0
         /\ boot.requests = 0
         /\ boot.issued = 0
         /\ s.nil

\* Five calls have failed, and not all for the same reason.
C8_Witness ==
    /\ boot.pc = "failed"
    /\ boot.calls = FetchAttempts
    /\ boot.okCalls = 0
    /\ boot.fetched[FetchAttempts - 1].err # boot.fetched[FetchAttempts].err

\* C9: a malformed join token and a remote root that does not match the
\* token's pin fail the bootstrap at once: no GetRemoteCA call follows
\* either.
C9_IntegrityErrorsFatal ==
    /\ boot.err = "invalid join token" => (boot.pc = "failed" /\ boot.calls = 0)
    /\ \A j \in 1..Len(boot.fetched) :
          boot.fetched[j].err = "remote CA does not match fingerprint" =>
              (j = Len(boot.fetched) /\ boot.pc = "failed")

\* C10: with no root on disk and a token whose pin matches none of the
\* roots the remotes offer, the bootstrap accepts no root and ends in an
\* error, with no root file and no node file written and no certificate
\* requested.
C10_PinMismatchPersistsNothing ==
    (/\ boot.token # EmptyToken
     /\ Len(boot.fetched) > 0
     /\ \A j \in 1..Len(boot.fetched) :
            boot.fetched[j].resp \in Roots /\ Digest(boot.fetched[j].resp) # boot.d) =>
        /\ boot.pc \in {"fetch", "failed"}
        /\ Len(boot.fetched) = FetchAttempts =>
              (boot.pc = "failed" /\ boot.err = "remote CA does not match fingerprint")
        /\ boot.rootCA = NoRootCA
        /\ boot.wrote = {}
        /\ boot.loads = 0
        /\ boot.requests = 0
        /\ boot.issued = 0
        /\ s.nil

\* A pinned bootstrap on an empty base directory has failed: every remote
\* offered another root than the pinned one.
C10_Witness ==
    /\ boot.pc = "failed"
    /\ boot.token = JoinToken("R1")
    /\ Len(boot.fetched) = FetchAttempts
    /\ \A j \in 1..FetchAttempts : boot.fetched[j].resp = "R2"
    /\ disk[NewConfigPaths.RootCA.Cert] = NoFile

\* C11: warm restart.  When the root CA has loaded from disk and the node
\* credentials have loaded under it, LoadOrCreateSecurityConfig has called
\* no remote, requested and issued no certificate and written no file, and
\* has sent on a nodeInfo sink exactly one notification: accepted, with the
\* node ID of the certificate on disk.
C11_WarmRestartLocal ==
    (boot.localRoot /\ boot.loadOK) =>
        /\ boot.pc = "done"
        /\ boot.calls = 0
        /\ boot.requests = 0
        /\ boot.issued = 0
        /\ boot.wrote = {}
        /\ boot.tlsKeyPair.nil
        /\ s.ClientTLSCreds.Certificates.cert = NodeCertFile
        /\ boot.nodeInfo =
             IF boot.sink
             THEN <<[NodeID |-> NodeCertFile.cn, NodeMembership |-> "accepted"]>>
             ELSE <<>>

\* A node with a sink has restarted on its root and its credentials.
C11_Witness ==
    /\ boot.localRoot
    /\ boot.loadOK
    /\ boot.sink
    /\ Len(boot.nodeInfo) = 1
    /\ crashes > 0

\* The certificate a bootstrap has issued: the one being written, then the
\* one of the key pair it returns.
BootCertificate == IF wr.by = "boot" THEN wr.cert ELSE boot.tlsKeyPair.cert

\* C12: with a root CA that can sign and node credentials that do not load,
\* LoadOrCreateSecurityConfig calls no remote; it has sent {the fresh node
\* ID, accepted} on a nodeInfo sink before the certificate is issued and
\* before any node file is written, and the certificate it issues carries
\* that node ID as common name and proposedRole as role.
C12_LocalIssuance ==
    /\ boot.pc \in {"newNodeID", "issueLocal"} =>
         /\ boot.rootCA.CanSign
         /\ ~boot.loadOK
         /\ boot.issued = 0
         /\ boot.wrote = {}
    /\ (boot.pc = "issueLocal" \/ boot.issued > 0) =>
         /\ boot.calls = 0
         /\ boot.requests = 0
         /\ boot.issued <= 1
         /\ boot.nodeInfo =
              IF boot.sink
              THEN <<[NodeID |-> boot.cn, NodeMembership |-> "accepted"]>>
              ELSE <<>>
         /\ NodeCertFile.st = "cert" => NodeCertFile.cn # boot.cn \/ boot.issued = 1
    /\ boot.issued > 0 =>
         /\ BootCertificate.cn = boot.cn
         /\ BootCertificate.role = boot.proposedRole
         /\ BootCertificate.issuer = boot.rootCA.Cert
         /\ boot.pc = "done" => s.ClientTLSCreds.Certificates.cert = BootCertificate

\* A signing node whose certificate had expired has announced a new node ID
\* on its sink and has issued itself a certificate for it.
C12_Witness ==
    /\ boot.pc = "done"
    /\ boot.issued = 1
    /\ boot.sink
    /\ boot.cn = MaxCerts
    /\ boot.proposedRole = ManagerRole
    /\ NodeCertFile.cn = boot.cn

(***************************************************************************)
(* The functions of the package a caller applies on their own.  Instants   *)
(* and durations are in seconds.                                           *)
(***************************************************************************)
\* The longest validity period a certificate is given here, in seconds.
MaxValidity == 600
SecondsPerMinute == 60
\* CertLowerRotationRange = 0.5 and CertUpperRotationRange = 0.8, in per cent.
CertLowerRotationRange == 50
CertUpperRotationRange == 80

\* int(duration.Minutes() * range) for a duration that is not negative.
ValidityMinutes(duration, range) == (duration * range) \div (SecondsPerMinute * 100)

\* The exclusive bound n of rand.Intn(n), where the generator is used.
RandomRange(validFrom, validUntil) ==
    LET duration == validUntil - validFrom
    IN  ValidityMinutes(duration, CertUpperRotationRange)
            - ValidityMinutes(duration, CertLowerRotationRange)

\* randomExpiry: the number of minutes selected; rnd is what rand.Intn returns.
RandomExpiryMinutes(validFrom, validUntil, rnd) ==
    LET duration == validUntil - validFrom
        minValidity == ValidityMinutes(duration, CertLowerRotationRange)
        maxValidity == ValidityMinutes(duration, CertUpperRotationRange)
    IN  IF maxValidity - minValidity < 1 THEN minValidity ELSE rnd + minValidity

calculateRandomExpiry(validFrom, validUntil, now, rnd) ==
    LET randomExpiry == RandomExpiryMinutes(validFrom, validUntil, rnd)
        expiry == (validFrom + randomExpiry * SecondsPerMinute) - now
    IN  IF expiry < 0 THEN 0 ELSE expiry

mainVars == <<disk, expired, serial, crashes, rot, boot, s, wr, renew, updates,
              cancelled, renewCh, timerFired, rootUpdates>>

\* retry = calculateRandomExpiry(validFrom, validUntil), for a certificate
\* that has not expired at the instant now.
CallCalculateRandomExpiry ==
    /\ call = NoCall
    /\ \E validFrom \in {0, 7}, duration \in 1..MaxValidity :
         \E now \in {validFrom, validFrom + duration \div 2, validFrom + duration} :
           LET validUntil == validFrom + duration
               n == RandomRange(validFrom, validUntil)
           IN  \E rnd \in 0..(IF n < 1 THEN 0 ELSE n - 1) :
                 call' = [fn |-> "calculateRandomExpiry",
                          validFrom |-> validFrom, validUntil |-> validUntil,
                          now |-> now, rnd |-> rnd,
                          target |-> validFrom + SecondsPerMinute
                                       * RandomExpiryMinutes(validFrom, validUntil, rnd),
                          retry |-> calculateRandomExpiry(validFrom, validUntil, now, rnd)]
    /\ UNCHANGED <<mainVars, adapterVars>>

\* Root CA digests: a number of leading zeros, then a pattern of
\* hexadecimal characters; all zeros and all f are among them.
HexPattern(zeros, a, b) ==
    [i \in 1..DigestHexLen |->
        IF i <= zeros THEN "0" ELSE LowerDigits[((i * a + b) % 16) + 1]]
TestDigests ==
    {DigestAlgorithm \o HexPattern(zeros, a, b) :
        zeros \in {0, 1, 3, DigestHexLen - 1, DigestHexLen}, a \in {0, 5, 7}, b \in {0, 3, 15}}

\* The integer of generatedSecretEntropyBytes random bytes: zero, small,
\* the largest, one in between.
TestSecrets ==
    {<<>>, <<1>>, TokenSecret, [i \in 1..(2 * generatedSecretEntropyBytes) |-> 15]}

\* token = GenerateJoinToken(rootCA)
CallGenerateJoinToken ==
    /\ call = NoCall
    /\ \E d \in TestDigests, nn \in TestSecrets :
         call' = [fn |-> "GenerateJoinToken", digest |-> d, nn |-> nn,
                  token |-> GenerateJoinToken([RootCAOf("R1", FALSE) EXCEPT !.Digest = d], nn)]
    /\ UNCHANGED <<mainVars, adapterVars>>

TokenOf(prefix, version, digestSegment, secretSegment) ==
    prefix \o <<"-">> \o version \o <<"-">> \o digestSegment \o <<"-">> \o secretSegment

DigestSegment == PadZero(Text(SetString(RootDigestHex("R1"), 16).val, joinTokenBase), base36DigestLen)
SecretSegment == PadZero(Text(TokenSecret, joinTokenBase), maxGeneratedSecretLength)

\* Tokens that GenerateJoinToken did not produce.
ForeignTokens ==
    { <<>>,
      TokenOf(TokenPrefix, TokenVersion, <<"a">>, <<"b">>),
      TokenOf(TokenPrefix, TokenVersion, <<>>, <<>>),
      TokenOf(TokenPrefix, TokenVersion, DigestSegment, <<"b">>),
      TokenOf(TokenPrefix, TokenVersion, DigestSegment, SecretSegment \o <<"0">>),
      TokenOf(TokenPrefix, TokenVersion, <<"0">> \o DigestSegment, SecretSegment),
      TokenOf(TokenPrefix, TokenVersion, Tail(DigestSegment), SecretSegment),
      TokenOf(TokenPrefix, TokenVersion, [DigestSegment EXCEPT ![base36DigestLen] = "_"], SecretSegment),
      TokenOf(TokenPrefix, TokenVersion, [DigestSegment EXCEPT ![1] = "_"], SecretSegment),
      TokenOf(TokenPrefix, TokenVersion, [DigestSegment EXCEPT ![1] = "+"], SecretSegment),
      TokenOf(TokenPrefix, TokenVersion, [i \in 1..base36DigestLen |-> "z"], SecretSegment),
      TokenOf(TokenPrefix, TokenVersion, [i \in 1..base36DigestLen |-> UpperDigits[(i % 36) + 1]],
              SecretSegment),
      TokenOf(TokenPrefix, <<"2">>, DigestSegment, SecretSegment),
      TokenOf(<<"s", "w", "m", "t", "k", "n">>, TokenVersion, DigestSegment, SecretSegment),
      TokenOf(TokenPrefix, TokenVersion, DigestSegment, SecretSegment) \o <<"-">>,
      TokenPrefix \o <<"-">> \o TokenVersion \o <<"-">> \o DigestSegment }

\* d, err = getCAHashFromToken(token), for a token that GenerateJoinToken
\* has just produced or for a foreign one.
CallGetCAHashFromToken ==
    /\ call.fn \in {"none", "GenerateJoinToken"}
    /\ \E token \in (IF call.fn = "GenerateJoinToken" THEN {call.token} ELSE ForeignTokens),
          keep \in BOOLEAN :
         LET h == getCAHashFromToken(token, keep)
         IN  call' = [fn |-> "getCAHashFromToken", token |-> token,
                      generated |-> call.fn = "GenerateJoinToken",
                      digest |-> IF call.fn = "GenerateJoinToken" THEN call.digest ELSE NoDigest,
                      d |-> h.d, err |-> h.err]
    /\ UNCHANGED <<mainVars, adapterVars>>

\* Wire values: the two roles and values that are no role.
TestApiRoles == {-1, NodeRoleWorker, NodeRoleManager, 2, 3}

\* Role strings: the two roles in several letter cases, and strings that
\* are no role.
TestRoleStrings ==
    { ManagerRoleChars, WorkerRoleChars, CARoleChars, <<>>,
      <<"S", "W", "A", "R", "M", "-", "M", "A", "N", "A", "G", "E", "R">>,
      <<"S", "w", "a", "r", "m", "-", "W", "o", "r", "k", "e", "R">>,
      <<"S", "W", "A", "R", "M", "-", "C", "A">>,
      <<"m", "a", "n", "a", "g", "e", "r">>,
      <<"w", "o", "r", "k", "e", "r">>,
      <<"s", "w", "a", "r", "m", "_", "w", "o", "r", "k", "e", "r">>,
      Append(ManagerRoleChars, " "),
      <<"0">>, <<"1">> }

\* role, err = ParseRole(apiRole), for a wire value of the caller or for
\* the one FormatRole has just returned without error.
CallParseRole ==
    /\ \/ call = NoCall
       \/ call.fn = "FormatRole" /\ call.err = NoErr
    /\ \E apiRole \in (IF call = NoCall THEN TestApiRoles ELSE {call.apiRole}) :
         LET r == ParseRole(apiRole)
         IN  call' = [fn |-> "ParseRole", apiRole |-> apiRole,
                      role |-> r.role, err |-> r.err,
                      chained |-> call # NoCall,
                      from |-> IF call = NoCall THEN <<>> ELSE call.role]
    /\ UNCHANGED <<mainVars, adapterVars>>

\* apiRole, err = FormatRole(role), for a string of the caller or for the
\* one ParseRole has just returned without error.
CallFormatRole ==
    /\ \/ call = NoCall
       \/ call.fn = "ParseRole" /\ call.err = NoErr /\ ~call.chained
    /\ \E role \in (IF call = NoCall THEN TestRoleStrings ELSE {RoleChars(call.role)}) :
         LET r == FormatRole(role)
         IN  call' = [fn |-> "FormatRole", role |-> role,
                      apiRole |-> r.apiRole, err |-> r.err,
                      chained |-> call # NoCall,
                      from |-> IF call = NoCall THEN 0 ELSE call.apiRole]
    /\ UNCHANGED <<mainVars, adapterVars>>

\* Durations and instants of the signing policy, in minutes.
CertBackdate == 60
MinNodeCertExpiration == 15
DefaultNodeCertExpiration == 129600

\* SigningPolicy(certExpiry): the Expiry and the Backdate of the default
\* profile.
SigningPolicy(certExpiry) ==
    LET expiry == IF certExpiry < MinNodeCertExpiration THEN DefaultNodeCertExpiration
                  ELSE certExpiry
    IN  [Expiry |-> expiry + CertBackdate, Backdate |-> CertBackdate]

\* The validity the signer gives a certificate under a policy at the
\* instant now: NotBefore is now less the Backdate, NotAfter is NotBefore
\* and the Expiry.
SignValidity(policy, now) ==
    [NotBefore |-> now - policy.Backdate,
     NotAfter |-> (now - policy.Backdate) + policy.Expiry]

TestExpiries ==
    {0, MinNodeCertExpiration - 1, MinNodeCertExpiration, MinNodeCertExpiration + 1,
     CertBackdate, 2 * CertBackdate, DefaultNodeCertExpiration}

\* policy = SigningPolicy(certExpiry)
CallSigningPolicy ==
    /\ call = NoCall
    /\ \E certExpiry \in TestExpiries :
         call' = [fn |-> "SigningPolicy", certExpiry |-> certExpiry,
                  policy |-> SigningPolicy(certExpiry)]
    /\ UNCHANGED <<mainVars, adapterVars>>

\* A certificate is issued locally under the policy.
CallSign ==
    /\ call.fn = "SigningPolicy"
    /\ \E now \in {CertBackdate, 2 * DefaultNodeCertExpiration} :
         LET v == SignValidity(call.policy, now)
         IN  call' = [fn |-> "Sign", certExpiry |-> call.certExpiry,
                      policy |-> call.policy, now |-> now,
                      NotBefore |-> v.NotBefore, NotAfter |-> v.NotAfter]
    /\ UNCHANGED <<mainVars, adapterVars>>

\* ---------------------------------------------------------------------
\* withMounts (agent/exec/containerd/adapter.go): the mounts of a task's
\* container spec.  Paths are sequences of one-character strings.
\* ---------------------------------------------------------------------
MaxMounts == 2

PathSeparator == "/"

\* filepath.IsAbs on Unix: the path begins with the separator.
IsAbs(path) == path # <<>> /\ path[1] = PathSeparator

\* The elements of a path, the empty ones between adjacent separators included.
RECURSIVE Elements(_)
Elements(path) ==
    LET stops == {i \in 1..Len(path) : path[i] = PathSeparator}
    IN  IF stops = {} THEN <<path>>
        ELSE <<SubSeq(path, 1, Min(stops) - 1)>>
                 \o Elements(SubSeq(path, Min(stops) + 1, Len(path)))

\* filepath.Clean, element by element: empty and "." elements are dropped,
\* ".." removes the element before it, or is dropped at the root, or is
\* kept at the start of a relative path.
RECURSIVE CleanElements(_, _, _)
CleanElements(elems, out, rooted) ==
    IF elems = <<>> THEN out
    ELSE LET e == Head(elems)
             next == IF e = <<>> \/ e = <<".">> THEN out
                     ELSE IF e = <<".", ".">>
                          THEN IF out # <<>> /\ out[Len(out)] # <<".", ".">>
                               THEN SubSeq(out, 1, Len(out) - 1)
                               ELSE IF rooted THEN out ELSE Append(out, e)
                          ELSE Append(out, e)
         IN  CleanElements(Tail(elems), next, rooted)

RECURSIVE JoinElements(_)
JoinElements(elems) ==
    IF elems = <<>> THEN <<>>
    ELSE IF Len(elems) = 1 THEN elems[1]
    ELSE elems[1] \o <<PathSeparator>> \o JoinElements(Tail(elems))

Clean(path) ==
    LET body == JoinElements(CleanElements(Elements(path), <<>>, IsAbs(path)))
    IN  IF IsAbs(path) THEN <<PathSeparator>> \o body
        ELSE IF body = <<>> THEN <<".">> ELSE body

\* strings.Count(s, sep) for a one-character separator.
Count(str, sep) == Cardinality({i \in 1..Len(str) : str[i] = sep})

\* mounts.parts and mounts.Less.
parts(m) == Count(Clean(m.Target), PathSeparator)

Less(a, b) == parts(a) < parts(b)

\* sort.Sort(mounts(ms)): on a slice this short it is an insertion sort,
\* which moves an element left only past elements it is Less than.
RECURSIVE InsertMount(_, _)
InsertMount(sorted, m) ==
    IF sorted = <<>> THEN <<m>>
    ELSE IF Less(m, sorted[Len(sorted)])
         THEN Append(InsertMount(SubSeq(sorted, 1, Len(sorted) - 1), m),
                     sorted[Len(sorted)])
         ELSE Append(sorted, m)

RECURSIVE SortMounts(_)
SortMounts(ms) ==
    IF ms = <<>> THEN <<>>
    ELSE InsertMount(SortMounts(SubSeq(ms, 1, Len(ms) - 1)), ms[Len(ms)])

\* api.Mount_BindOptions_MountPropagation, by the names of its values;
\* MountPropagationUnknown stands for a value that names no mode.
MountPropagations ==
    {"MountPropagationPrivate", "MountPropagationRPrivate",
     "MountPropagationShared", "MountPropagationRShared",
     "MountPropagationSlave", "MountPropagationRSlave"}

MountPropagationUnknown == "MountPropagation(6)"

\* No BindOptions / TmpfsOptions.
NoOptions == [nil |-> TRUE]

BindOptions(p) == [nil |-> FALSE, Propagation |-> p]

mountPropagationReverseMap ==
    [p \in MountPropagations |->
        CASE p = "MountPropagationPrivate"  -> "private"
          [] p = "MountPropagationRPrivate" -> "rprivate"
          [] p = "MountPropagationShared"   -> "shared"
          [] p = "MountPropagationRShared"  -> "rshared"
          [] p = "MountPropagationRSlave"   -> "slave"
          [] p = "MountPropagationSlave"    -> "rslave"]

TmpfsOptions(size, mode) == [nil |-> FALSE, SizeBytes |-> size, Mode |-> mode]

TmpfsSize == 1024

TmpfsMode == 511

\* fmt.Sprintf("size=%d", ...) and fmt.Sprintf("mode=%o", ...) of the sizes
\* and the mode a tmpfs mount is given here.
SizeOption(size) == IF size = TmpfsSize THEN "size=1024" ELSE "size=?"

ModeOption(mode) == IF mode = TmpfsMode THEN "mode=777" ELSE "mode=?"

\* The spec mount of one api.Mount: [err, mount]; mount is meaningful when
\* err = NoErr.  mergeErr is the answer of dockermount.MergeTmpfsOptions.
NoSpecMount == [Destination |-> <<>>, Type |-> "", Source |-> <<>>, Options |-> <<>>]

specMount(m, mergeErr) ==
    IF ~IsAbs(m.Target)
    THEN [err |-> "mount is not absolute", mount |-> NoSpecMount]
    ELSE IF m.Type = "MountTypeTmpfs"
    THEN IF ~m.TmpfsOptions.nil /\ m.TmpfsOptions.SizeBytes <= 0
         THEN [err |-> "invalid tmpfs size give", mount |-> NoSpecMount]
         ELSE IF mergeErr # NoErr
         THEN [err |-> mergeErr, mount |-> NoSpecMount]
         ELSE [err |-> NoErr,
               mount |-> [Destination |-> m.Target, Type |-> "tmpfs",
                          Source |-> <<"t", "m", "p", "f", "s">>,
                          Options |-> <<"noexec", "nosuid", "nodev", "rprivate">>
                                      \o (IF m.TmpfsOptions.nil THEN <<>>
                                          ELSE <<SizeOption(m.TmpfsOptions.SizeBytes),
                                                 ModeOption(m.TmpfsOptions.Mode)>>)
                                      \o (IF m.ReadOnly THEN <<"ro">> ELSE <<"rw">>)]]
    ELSE IF m.Type = "MountTypeVolume"
    THEN [err |-> "volume mounts not implemented", mount |-> NoSpecMount]
    ELSE LET propagation ==
                 IF ~m.BindOptions.nil
                    /\ m.BindOptions.Propagation \in DOMAIN mountPropagationReverseMap
                 THEN mountPropagationReverseMap[m.BindOptions.Propagation]
                 ELSE "rprivate"
         IN  [err |-> NoErr,
              mount |-> [Destination |-> m.Target, Type |-> "bind",
                         Source |-> m.Source,
                         Options |-> <<"rbind">>
                                     \o (IF m.ReadOnly THEN <<"ro">> ELSE <<"rw">>)
                                     \o <<propagation>>]]

\* The loop of the returned SpecOpts over the sorted mounts: it appends to
\* s.Mounts until a mount fails, and what it appended before stays.
RECURSIVE applyMounts(_, _, _)
applyMounts(ms, specMounts, mergeErr) ==
    IF ms = <<>> THEN [Mounts |-> specMounts, err |-> NoErr]
    ELSE LET r == specMount(Head(ms), mergeErr)
         IN  IF r.err # NoErr THEN [Mounts |-> specMounts, err |-> r.err]
             ELSE applyMounts(Tail(ms), Append(specMounts, r.mount), mergeErr)

withMounts(ms, mergeErr) ==
    LET sorted == SortMounts(ms)
    IN  [ms |-> sorted] @@ applyMounts(sorted, <<>>, mergeErr)

Mount(type, target, ro, bo, to) ==
    [Type |-> type, Target |-> target, Source |-> <<"/", "s">>,
     ReadOnly |-> ro, BindOptions |-> bo, TmpfsOptions |-> to]

TestTargets ==
    {<<"/", "a">>, <<"/", "a", "/", "b">>,
     <<"/", "a", "/", ".", ".", "/", "/", "c", "/">>}

TestBindOptions ==
    {NoOptions} \cup {BindOptions(p) :
                         p \in MountPropagations \cup {MountPropagationUnknown}}

TestMounts ==
    {Mount("MountTypeBind", t, FALSE, bo, NoOptions) :
         t \in TestTargets, bo \in TestBindOptions}
    \cup {Mount("MountTypeBind", <<"/", "a">>, TRUE, bo, NoOptions) :
              bo \in TestBindOptions}
    \cup {Mount("MountTypeBind", <<"a">>, FALSE, NoOptions, NoOptions),
          Mount("MountTypeVolume", <<"/", "v">>, FALSE, NoOptions, NoOptions)}
    \cup {Mount("MountTypeTmpfs", <<"/", "t">>, ro, NoOptions, to) :
              ro \in BOOLEAN,
              to \in {NoOptions, TmpfsOptions(0, TmpfsMode),
                      TmpfsOptions(TmpfsSize, TmpfsMode)}}

MountLists == UNION {[1..n -> TestMounts] : n \in 1..MaxMounts}

CallWithMounts ==
    /\ call = NoCall
    /\ \E ms \in MountLists, mergeErr \in {NoErr, "invalid tmpfs option"} :
         call' = [fn |-> "withMounts", arg |-> ms, mergeErr |-> mergeErr]
                     @@ withMounts(ms, mergeErr)
    /\ UNCHANGED <<mainVars, adapterVars>>

FuncInit ==
    /\ disk = EmptyDisk
    /\ expired = {}
    /\ serial = 0
    /\ crashes = 0
    /\ rot = [startedValid |-> FALSE, root |-> NoRootCA]
    /\ boot = BootEntry(EmptyToken, WorkerRole, FALSE)
    /\ s = NoSec
    /\ wr = WrIdle
    /\ renew = RenewOff
    /\ updates = NoUpdates
    /\ cancelled = FALSE
    /\ renewCh = FALSE
    /\ timerFired = FALSE
    /\ rootUpdates = 0
    /\ call = NoCall
    /\ AdapterInit

\* The caller has its result and may call again.
CallReturn ==
    /\ call # NoCall
    /\ call' = NoCall
    /\ UNCHANGED <<mainVars, adapterVars>>

FuncNext ==
    \/ CallCalculateRandomExpiry
    \/ CallGenerateJoinToken
    \/ CallGetCAHashFromToken
    \/ CallParseRole
    \/ CallFormatRole
    \/ CallSigningPolicy
    \/ CallSign
    \/ CallWithMounts
    \/ CallReturn

FuncSpec == FuncInit /\ [][FuncNext]_vars

\* C13: for every validity window of a certificate that has not expired,
\* of length d, the renewal instant calculateRandomExpiry selects
\* (validFrom plus the selected minutes) is in [validFrom + 0.5 d,
\* validFrom + 0.8 d], whatever the generator returns and whatever d is.
C13_RenewalInWindow ==
    call.fn = "calculateRandomExpiry" =>
        LET d == call.validUntil - call.validFrom
            offset == call.target - call.validFrom
        IN  /\ 100 * offset >= CertLowerRotationRange * d
            /\ 100 * offset <= CertUpperRotationRange * d

\* C14: an iteration that starts with a node certificate whose validUntil
\* has passed publishes CertificateUpdate{Err: "TLS certificate is expired"},
\* goes to the select with the 5-minute default as retry, not a computed
\* value, and does not return; when the timer fires in the select the
\* issuance is attempted.  Every iteration that finds the certificate
\* expired does so.
C14_ExpiredKeepsDefault ==
    /\ [][(/\ renew.pc = "top"
           /\ renew'.pc # "top"
           /\ crashes' = crashes
           /\ NodeCertFile.st = "cert"
           /\ NodeCertFile.serial \in expired) =>
            /\ renew'.pc = "select"
            /\ updates'.pending = CertificateUpdate("", "TLS certificate is expired")
            /\ ~updates'.closed
            /\ renew'.retry = [kind |-> "default", minutes |-> DefaultRetry]]_vars
    /\ [][(renew.pc = "select" /\ timerFired /\ renew'.trigger = "timer") =>
            renew'.pc = "request"]_vars

\* After a renewal that failed, the next iteration has found the loaded
\* certificate expired, has waited with the default, and the timer has
\* started another issuance.
C14_Witness ==
    /\ renew.pc = "request"
    /\ renew.trigger = "timer"
    /\ renew.retry = [kind |-> "default", minutes |-> DefaultRetry]
    /\ NodeCertFile.serial = 0
    /\ NodeCertFile.serial \in expired
    /\ serial = 1
    /\ crashes = 0

\* C15: in every state the client credentials' configuration has the
\* server name "swarm-manager", after a bootstrap that loads, after one that
\* issues, and after renewals; the external CA's configuration has the same
\* certificates and root pool, and no server name.
C15_ClientServerName ==
    ~s.nil =>
        /\ s.ClientTLSCreds.ServerName = ManagerRole
        /\ s.externalCA.ServerName = ""
        /\ s.externalCA.Certificates = s.ClientTLSCreds.Certificates
        /\ s.externalCA.RootCAs = s.ClientTLSCreds.RootCAs

\* C16: an attempt whose client swap has failed leaves the external CA's
\* configuration as it was, so that between attempts the external CA and the
\* client credentials carry the same key pair.
C16_ExternalCAAfterClientSwap ==
    /\ [][(/\ renew.pc = "updateExternalCA"
           /\ renew.attErr = "loadClient"
           /\ crashes' = crashes) =>
            s'.externalCA = s.externalCA]_vars
    /\ []((~s.nil /\ renew.pc \in {"off", "top", "select", "request", "writing", "returned"}) =>
            s.externalCA.Certificates = s.ClientTLSCreds.Certificates)

\* C17: the root CA of a SecurityConfig changes only in an UpdateRootCA
\* call whose NewRootCA succeeds, to the root that call was given; a call
\* whose NewRootCA fails returns the error and changes nothing; the renewal
\* changes nothing of it, and what it reads with RootCA() is the root CA
\* the SecurityConfig holds at that instant.
C17_RootCAOnlyByUpdate ==
    /\ [][(~s.nil /\ ~s'.nil /\ s'.rootCA # s.rootCA) =>
            /\ rootUpdates' = rootUpdates + 1
            /\ call'.fn = "UpdateRootCA"
            /\ call'.err = NoErr
            /\ s'.rootCA = NewRootCA(call'.cert, FALSE).rootCA]_vars
    /\ [][rootUpdates' = rootUpdates + 1 =>
            /\ call'.err = NewRootCA(call'.cert, FALSE).err
            /\ call'.err # NoErr => s' = s]_vars
    /\ [][(renew.pc = "request" /\ renew'.pc = "writing") =>
            (s' = s /\ renew'.rootCA = s.rootCA)]_vars

\* An UpdateRootCA given a certificate that does not parse has returned
\* its error while a renewal was under way, and the root CA is the one of
\* the bootstrap.
C17_Witness ==
    /\ call.fn = "UpdateRootCA"
    /\ call.cert = "garbage"
    /\ call.err # NoErr
    /\ renew.pc = "publish"
    /\ s.rootCA = renew.rootCA
    /\ s.rootCA.Cert = "R1"


(* C18: for every root CA and every value of the random secret, decoding
   the token that GenerateJoinToken(rootCA) produced with getCAHashFromToken
   succeeds and yields rootCA's digest, also when the base-36 or the
   hexadecimal form of the digest has leading zeros. *)
C18_TokenRoundTrip ==
    (call.fn = "getCAHashFromToken" /\ call.generated) =>
        (call.err = NoErr /\ call.d = call.digest)

\* A token was decoded to its digest whose hexadecimal form and whose
\* base-36 form both start with a zero, and the digest is not zero.
C18_Witness ==
    /\ call.fn = "getCAHashFromToken"
    /\ call.generated
    /\ Hex(call.digest)[1] = "0"
    /\ Hex(call.digest)[DigestHexLen] # "0"
    /\ Split(call.token, "-")[3][1] = "0"
    /\ call.err = NoErr
    /\ call.d = call.digest

\* Every character of str is a digit in base 36.
IsBase36(str) == \A i \in 1..Len(str) : DigitValue(str[i], joinTokenBase) >= 0

\* SWMTKN-1-<50 base-36 characters>-<25 base-36 characters>
HasTokenForm(token) ==
    LET split == Split(token, "-")
    IN  /\ Len(split) = 4
        /\ split[1] = TokenPrefix
        /\ split[2] = TokenVersion
        /\ Len(split[3]) = base36DigestLen /\ IsBase36(split[3])
        /\ Len(split[4]) = maxGeneratedSecretLength /\ IsBase36(split[4])

\* The length of a token of that form: two literal segments, the digest,
\* the secret, three hyphens.
TokenLen == Len(TokenPrefix) + Len(TokenVersion) + base36DigestLen + maxGeneratedSecretLength + 3

(* C19: every join token produced by GenerateJoinToken has the form
   SWMTKN-1-<50 base-36 characters>-<25 base-36 characters>; it is exactly
   85 characters long including hyphens. *)
C19_TokenForm ==
    call.fn = "GenerateJoinToken" =>
        (HasTokenForm(call.token) /\ Len(call.token) = TokenLen /\ TokenLen = 85)

\* A token was produced from the largest digest and the largest secret:
\* neither segment needed a zero on its left.
C19_Witness ==
    /\ call.fn = "GenerateJoinToken"
    /\ call.digest = DigestAlgorithm \o [i \in 1..DigestHexLen |-> "f"]
    /\ call.nn = [i \in 1..(2 * generatedSecretEntropyBytes) |-> 15]
    /\ Split(call.token, "-")[3][1] # "0"
    /\ Split(call.token, "-")[4][1] # "0"
    /\ HasTokenForm(call.token)
    /\ Len(call.token) = TokenLen

\* C19 as the specification has it: the form, and 83 characters.
C19_Length83 ==
    call.fn = "GenerateJoinToken" =>
        (HasTokenForm(call.token) /\ Len(call.token) = 83)

(* C20: getCAHashFromToken accepts a token only in the exact token shape:
   whenever it returns without error, the token has exactly four segments
   between hyphens, the first two are "SWMTKN" and "1", the digest segment
   has length 50 and decodes as base 36, and the secret segment has length
   25; a token of any other shape yields an error. *)
C20_ExactShapeOnly ==
    (call.fn = "getCAHashFromToken" /\ call.err = NoErr) =>
        LET split == Split(call.token, "-")
        IN  /\ Len(split) = 4
            /\ split[1] = TokenPrefix
            /\ split[2] = TokenVersion
            /\ Len(split[3]) = base36DigestLen
            /\ SetString(split[3], joinTokenBase).ok
            /\ Len(split[4]) = maxGeneratedSecretLength

\* a and b are the same string up to the case of the letters A..Z.
EqualFold(a, b) ==
    /\ Len(a) = Len(b)
    /\ \A i \in 1..Len(a) :
          \/ a[i] = b[i]
          \/ \E k \in 11..36 : {a[i], b[i]} = {UpperDigits[k], LowerDigits[k]}

(* C21: the role codec round-trips over {manager, worker}: a wire role
   converted to its string and back is the same wire role; a role string,
   in any letter case, converted to a wire role and back is the canonical
   string "swarm-manager" or "swarm-worker"; every other wire value and
   every other string, "swarm-ca" included, is an error; the wire-to-string
   direction never returns "swarm-ca". *)
C21_RoleRoundTrip ==
    /\ (call.fn = "FormatRole" /\ call.chained) =>
          (call.err = NoErr /\ call.apiRole = call.from)
    /\ (call.fn = "ParseRole" /\ call.chained) =>
          /\ call.err = NoErr
          /\ call.role \in {ManagerRole, WorkerRole}
          /\ EqualFold(RoleChars(call.role), call.from)
    /\ call.fn = "ParseRole" =>
          /\ call.err = NoErr <=> call.apiRole \in {NodeRoleManager, NodeRoleWorker}
          /\ call.role # CARole
    /\ call.fn = "FormatRole" =>
          (call.err = NoErr <=>
              (EqualFold(call.role, ManagerRoleChars) \/ EqualFold(call.role, WorkerRoleChars)))

\* A role string with upper case letters went to the wire and came back
\* as the canonical string.
C21_Witness ==
    /\ call.fn = "ParseRole"
    /\ call.chained
    /\ call.from # WorkerRoleChars
    /\ call.role = WorkerRole
    /\ EqualFold(WorkerRoleChars, call.from)

(* C22: for every certificate issued locally under SigningPolicy(expiry)
   with expiry >= MinNodeCertExpiration, NotBefore = now - CertBackdate and
   NotAfter - NotBefore = expiry. *)
C22_ValidityIsExpiry ==
    (call.fn = "Sign" /\ call.certExpiry >= MinNodeCertExpiration) =>
        /\ call.NotBefore = call.now - CertBackdate
        /\ call.NotAfter - call.NotBefore = call.certExpiry

(***************************************************************************)
(* The containerd adapter.  One caller runs the operations of the adapter  *)
(* one after the other; what the containerd client answers is chosen for   *)
(* each call.  The goroutine that events starts runs beside the caller.    *)
(***************************************************************************)
MaxOps == 5
MaxEvents == 3

errAdapterNotPrepared == "container adapter not prepared"
ExitStatuses == {0, 137}

\* c.isPrepared()
isPreparedAlways(a) == TRUE

isPrepared(a) == a.container # Nil /\ a.task # Nil

\* What an operation leaves: the adapter, what it returns, the calls it
\* made to the containerd client.
Result(a, err, calls) == [adapter |-> a, err |-> err, exit |-> 0, calls |-> calls]

\* c.pullImage(ctx), err being the error of client.Pull.
pullImage(a, err) ==
    IF err # NoErr THEN Result(a, "pulling container image", <<"Pull">>)
    ELSE Result([a EXCEPT !.image = "image"], NoErr, <<"Pull">>)

\* The places where prepare can fail after its two tests, and "ok".
PrepareOutcomes == {"GenerateSpec", "devNull", "NewContainer", "NewTask", "ok"}

\* c.prepare(ctx) with c.container kept when the task is not created.
prepareKeepContainer(a, outcome) ==
    IF isPrepared(a) THEN Result(a, "adapter already prepared", <<>>)
    ELSE IF a.image = Nil THEN Result(a, "image has not been pulled", <<>>)
    ELSE CASE outcome = "GenerateSpec" -> Result(a, "GenerateSpec", <<>>)
           [] outcome = "devNull" -> Result(a, "opening null device", <<>>)
           [] outcome = "NewContainer" ->
                Result([a EXCEPT !.container = Nil], "creating container", <<"NewContainer">>)
           [] outcome = "NewTask" ->
                Result([a EXCEPT !.container = "container", !.task = Nil], "creating task",
                       <<"NewContainer", "NewTask", "container.Delete">>)
           [] OTHER ->
                Result([a EXCEPT !.container = "container", !.task = "task"], NoErr,
                       <<"NewContainer", "NewTask">>)

\* c.prepare(ctx).  NewContainer and NewTask return nil with an error.
prepare(a, outcome) ==
    IF isPrepared(a) THEN Result(a, "adapter already prepared", <<>>)
    ELSE IF a.image = Nil THEN Result(a, "image has not been pulled", <<>>)
    ELSE CASE outcome = "GenerateSpec" -> Result(a, "GenerateSpec", <<>>)
           [] outcome = "devNull" -> Result(a, "opening null device", <<>>)
           [] outcome = "NewContainer" ->
                Result([a EXCEPT !.container = Nil], "creating container", <<"NewContainer">>)
           [] outcome = "NewTask" ->
                Result([a EXCEPT !.container = Nil, !.task = Nil], "creating task",
                       <<"NewContainer", "NewTask", "container.Delete">>)
           [] OTHER ->
                Result([a EXCEPT !.container = "container", !.task = "task"], NoErr,
                       <<"NewContainer", "NewTask">>)

\* c.start(ctx), err being the error of tasks.Start.
start(a, err) ==
    IF ~isPrepared(a) THEN Result(a, errAdapterNotPrepared, <<>>)
    ELSE Result(a, err, <<"tasks.Start">>)

\* c.inspect(ctx), err being the error of tasks.Info.
inspect(a, err) ==
    IF ~isPrepared(a) THEN Result(a, errAdapterNotPrepared, <<>>)
    ELSE Result(a, err, <<"tasks.Info">>)

\* c.shutdown(ctx) that asks for the deletion whatever c.deleteResponse is.
shutdownAgain(a, err, status) ==
    IF ~isPrepared(a) THEN Result(a, errAdapterNotPrepared, <<>>)
    ELSE IF err # NoErr THEN Result(a, err, <<"tasks.Delete">>)
    ELSE [adapter |-> [a EXCEPT !.deleteResponse = [nil |-> FALSE, ExitStatus |-> status]],
          err |-> NoErr, exit |-> status,
          calls |-> <<"tasks.Delete", "containers.Delete">>]

\* c.shutdown(ctx), err and status being what tasks.Delete answers.  The
\* error of containers.Delete is logged only.
shutdown(a, err, status) ==
    IF ~isPrepared(a) THEN Result(a, errAdapterNotPrepared, <<>>)
    ELSE IF a.deleteResponse.nil
    THEN IF err # NoErr THEN Result(a, err, <<"tasks.Delete">>)
         ELSE [adapter |-> [a EXCEPT !.deleteResponse = [nil |-> FALSE, ExitStatus |-> status]],
               err |-> NoErr, exit |-> status,
               calls |-> <<"tasks.Delete", "containers.Delete">>]
    ELSE [adapter |-> a, err |-> NoErr, exit |-> a.deleteResponse.ExitStatus, calls |-> <<>>]

\* c.terminate(ctx)
terminate(a) ==
    IF ~isPrepared(a) THEN Result(a, errAdapterNotPrepared, <<>>)
    ELSE Result(a, "terminate not implemented", <<>>)

\* c.remove(ctx)
remove(a) ==
    IF ~isPrepared(a) THEN Result(a, errAdapterNotPrepared, <<>>)
    ELSE Result(a, NoErr, <<>>)

RemoteErrs == {NoErr, "rpc error"}

\* The operation fn returns r: the adapter is what it left, and the
\* deletions it obtained are counted.  op remembers whether a prepare has
\* succeeded and whether one has failed to create its task.
Return(fn, r) ==
    /\ op.n < MaxOps
    /\ adapter' = r.adapter
    /\ op' = [n |-> op.n + 1, fn |-> fn, err |-> r.err, calls |-> r.calls, exit |-> r.exit,
              prepared |-> op.prepared \/ (fn = "prepare" /\ r.err = NoErr),
              taskFailed |-> op.taskFailed \/ (fn = "prepare" /\ r.err = "creating task")]
    /\ remote' =
         [taskDeletes |-> remote.taskDeletes
              + (IF fn = "shutdown" /\ r.calls # <<>> /\ r.err = NoErr THEN 1 ELSE 0),
          taskDeleteErrors |-> remote.taskDeleteErrors
              + (IF fn = "shutdown" /\ r.calls # <<>> /\ r.err # NoErr THEN 1 ELSE 0),
          containerDeletes |-> remote.containerDeletes
              + (IF fn = "shutdown" /\ Len(r.calls) = 2 THEN 1 ELSE 0)]

PullImage ==
    /\ \E err \in RemoteErrs : Return("pullImage", pullImage(adapter, err))
    /\ UNCHANGED <<mainVars, call, ev>>

Prepare ==
    /\ \E outcome \in PrepareOutcomes : Return("prepare", prepare(adapter, outcome))
    /\ UNCHANGED <<mainVars, call, ev>>

Start ==
    /\ \E err \in RemoteErrs : Return("start", start(adapter, err))
    /\ UNCHANGED <<mainVars, call, ev>>

Inspect ==
    /\ \E err \in RemoteErrs : Return("inspect", inspect(adapter, err))
    /\ UNCHANGED <<mainVars, call, ev>>

Shutdown ==
    /\ \E err \in RemoteErrs, status \in ExitStatuses :
          Return("shutdown", shutdown(adapter, err, status))
    /\ UNCHANGED <<mainVars, call, ev>>

Terminate ==
    /\ Return("terminate", terminate(adapter))
    /\ UNCHANGED <<mainVars, call, ev>>

Remove ==
    /\ Return("remove", remove(adapter))
    /\ UNCHANGED <<mainVars, call, ev>>

\* c.name, and the ID of another container.
ContainerName == "task1"
ContainerIDs == {ContainerName, "task2"}

\* The test of line 283 left out.
ForAnyContainer(evt) == TRUE

\* evt.ID != c.name is false: the event is of this container.
ForThisContainer(evt) == evt.ID = ContainerName

\* c.events(ctx), err being the error of tasks.Events.
events(a, err) ==
    IF ~isPrepared(a) THEN Result(a, errAdapterNotPrepared, <<>>)
    ELSE Result(a, err, <<"tasks.Events">>)

\* events returns; without error it has made the two channels and started
\* the goroutine, with a context of its own.  One goroutine at a time.
Events ==
    /\ \E err \in RemoteErrs :
         LET r == events(adapter, err)
         IN  /\ Return("events", r)
             /\ IF r.err = NoErr
                THEN /\ ev.pc \in {"none", "done"}
                     /\ ev' = [NoEvents EXCEPT !.pc = "recv"]
                ELSE ev' = ev
    /\ UNCHANGED <<mainVars, call>>

\* cl.Recv() returns an event: one of another container is skipped, one of
\* this container goes to the select.
EvRecv ==
    /\ ev.pc = "recv"
    /\ Len(ev.received) < MaxEvents
    /\ \E id \in ContainerIDs :
         LET evt == [ID |-> id, seq |-> Len(ev.received) + 1]
         IN  ev' = [ev EXCEPT !.received = Append(@, evt),
                              !.evt = IF ForThisContainer(evt) THEN evt ELSE NoEvent,
                              !.pc = IF ForThisContainer(evt) THEN "select" ELSE "recv"]
    /\ UNCHANGED <<mainVars, call, adapter, op, remote>>

\* cl.Recv() returns an error: the goroutine returns, closed is closed.
EvRecvError ==
    /\ ev.pc = "recv"
    /\ ev' = [ev EXCEPT !.recvErr = TRUE, !.closed = TRUE, !.pc = "done"]
    /\ UNCHANGED <<mainVars, call, adapter, op, remote>>

\* select, case eventsq <- *evt: the reader of the channel takes the event.
EvForward ==
    /\ ev.pc = "select"
    /\ ev' = [ev EXCEPT !.forwarded = Append(@, ev.evt), !.evt = NoEvent, !.pc = "recv"]
    /\ UNCHANGED <<mainVars, call, adapter, op, remote>>

\* select, case <-ctx.Done(): the goroutine returns with the event in its
\* hands, closed is closed.
EvCtxDone ==
    /\ ev.pc = "select"
    /\ ev.ctxDone
    /\ ev' = [ev EXCEPT !.dropped = TRUE, !.closed = TRUE, !.pc = "done"]
    /\ UNCHANGED <<mainVars, call, adapter, op, remote>>

\* The caller of events cancels its context.
CtxCancel ==
    /\ ev.pc \notin {"none", "done"}
    /\ ~ev.ctxDone
    /\ ev' = [ev EXCEPT !.ctxDone = TRUE]
    /\ UNCHANGED <<mainVars, call, adapter, op, remote>>

AdapterNext ==
    \/ PullImage
    \/ Prepare
    \/ Start
    \/ Events
    \/ Inspect
    \/ Shutdown
    \/ Terminate
    \/ Remove
    \/ EvRecv
    \/ EvRecvError
    \/ EvForward
    \/ EvCtxDone
    \/ CtxCancel

AdapterSpec == FuncInit /\ [][AdapterNext]_vars

\* The events received so far that are of this container.
Matching == SelectSeq(ev.received, LAMBDA e : e.ID = ContainerName)

(* C23: events forwards on its event channel the events received from the
   stream whose ID is the adapter's container name, in the order they were
   received, and drops the events of other containers; the one exception
   is the event that waits to be forwarded when the context is cancelled,
   which is dropped.  The closed channel is closed when receiving from the
   stream fails or when the goroutine ends on the cancelled context, and
   at no other time. *)
C23_ForwardsInOrder ==
    /\ Matching = ev.forwarded \o (IF ev.pc = "select" \/ ev.dropped THEN <<ev.evt>> ELSE <<>>)
    /\ ev.closed <=> (ev.recvErr \/ ev.dropped)
    /\ ev.dropped => ev.ctxDone
    /\ ev.closed <=> ev.pc = "done"

\* Two events of this container were forwarded in order, one of another
\* container between them was dropped, then the stream failed.
C23_Witness ==
    /\ Len(ev.received) = 3
    /\ ev.received[2].ID # ContainerName
    /\ ev.forwarded = <<ev.received[1], ev.received[3]>>
    /\ ev.recvErr
    /\ ev.closed

\* C23 without the exception: every event of this container is forwarded,
\* and closed is closed only when receiving from the stream has failed.
C23_ClosedOnlyOnStreamError ==
    /\ Matching = ev.forwarded \o (IF ev.pc = "select" THEN <<ev.evt>> ELSE <<>>)
    /\ ev.closed <=> ev.recvErr

\* The operations that start with the test of isPrepared.
GuardedOps == {"start", "events", "inspect", "shutdown", "terminate", "remove"}

(* C24: after any sequence of operations, start, events, inspect, shutdown,
   terminate and remove return errAdapterNotPrepared and make no call to
   the containerd client when the adapter is not prepared; the adapter is
   prepared, container and task both set, exactly when an earlier prepare
   has succeeded. *)
C24_NotPreparedNoCall ==
    /\ [][(/\ op'.n # op.n
           /\ op'.fn \in GuardedOps
           /\ (adapter.container = Nil \/ adapter.task = Nil)) =>
            (/\ op'.err = errAdapterNotPrepared
             /\ op'.calls = <<>>
             /\ adapter' = adapter
             /\ remote' = remote
             /\ ev' = ev)]_vars
    /\ []((adapter.container # Nil /\ adapter.task # Nil) <=> op.prepared)

\* shutdown was refused on an adapter whose image is pulled and whose
\* prepare has not succeeded, after three operations at least.
C24_Witness ==
    /\ op.fn = "shutdown"
    /\ op.err = errAdapterNotPrepared
    /\ op.calls = <<>>
    /\ adapter.image # Nil
    /\ ~op.prepared
    /\ op.n >= 3

(* C25: prepare is all-or-nothing on the adapter: called when the adapter
   is prepared or when no image has been pulled, it fails and creates no
   container and no task; when the creation of the task fails it asks for
   the deletion of the container it created, returns the error of the task
   creation and leaves container and task unset; only a prepare that
   returns nil leaves both set. *)
C25_PrepareAllOrNothing ==
    [][(op'.n # op.n /\ op'.fn = "prepare") =>
        (/\ ((adapter.container # Nil /\ adapter.task # Nil) \/ adapter.image = Nil) =>
               (op'.err # NoErr /\ op'.calls = <<>> /\ adapter' = adapter)
         /\ op'.err = "creating task" =>
               (/\ op'.calls = <<"NewContainer", "NewTask", "container.Delete">>
                /\ adapter'.container = Nil
                /\ adapter'.task = Nil)
         /\ (adapter.container = Nil \/ adapter.task = Nil) =>
               IF op'.err = NoErr
               THEN adapter'.container # Nil /\ adapter'.task # Nil
               ELSE adapter'.container = Nil /\ adapter'.task = Nil
         /\ adapter'.image = adapter.image
         /\ adapter'.deleteResponse = adapter.deleteResponse)]_vars

\* A prepare has succeeded after one that failed to create its task.
C25_Witness ==
    /\ op.fn = "prepare"
    /\ op.err = NoErr
    /\ op.taskFailed
    /\ adapter.container # Nil
    /\ adapter.task # Nil

(* C26: shutdown is idempotent on a prepared adapter: over any sequence of
   shutdown calls the task delete succeeds at most once and the container
   delete is asked for at most once; every shutdown after the first that
   succeeded makes no remote call and returns the exit status the first
   recorded; a shutdown whose task delete fails records nothing, so that a
   later call asks again. *)
C26_ShutdownIdempotent ==
    /\ [](remote.taskDeletes <= 1 /\ remote.containerDeletes <= 1)
    /\ [][~adapter.deleteResponse.nil => adapter'.deleteResponse = adapter.deleteResponse]_vars
    /\ [][(/\ op'.n # op.n
           /\ op'.fn = "shutdown"
           /\ adapter.container # Nil /\ adapter.task # Nil) =>
            IF ~adapter.deleteResponse.nil
            THEN /\ op'.calls = <<>>
                 /\ op'.err = NoErr
                 /\ op'.exit = adapter.deleteResponse.ExitStatus
                 /\ remote' = remote
            ELSE IF op'.err # NoErr
            THEN /\ op'.calls = <<"tasks.Delete">>
                 /\ adapter' = adapter
            ELSE /\ op'.calls = <<"tasks.Delete", "containers.Delete">>
                 /\ adapter'.deleteResponse = [nil |-> FALSE, ExitStatus |-> op'.exit]]_vars

\* A task delete failed, a later one succeeded with status 137, and the
\* shutdown after it returned 137 without a remote call.
C26_Witness ==
    /\ op.fn = "shutdown"
    /\ op.err = NoErr
    /\ op.calls = <<>>
    /\ op.exit = 137
    /\ remote.taskDeleteErrors = 1
    /\ remote.taskDeletes = 1
    /\ remote.containerDeletes = 1

\* ---------------------------------------------------------------------
\* C27  For a bind mount, withMounts emits the propagation option that
\* names the requested propagation mode (private -> "private", rprivate ->
\* "rprivate", shared -> "shared", rshared -> "rshared", slave -> "slave",
\* rslave -> "rslave"), and "rprivate" with no bind options or an unknown
\* mode.
\* ---------------------------------------------------------------------
PropagationName ==
    [p \in MountPropagations |->
        CASE p = "MountPropagationPrivate"  -> "private"
          [] p = "MountPropagationRPrivate" -> "rprivate"
          [] p = "MountPropagationShared"   -> "shared"
          [] p = "MountPropagationRShared"  -> "rshared"
          [] p = "MountPropagationSlave"    -> "slave"
          [] p = "MountPropagationRSlave"   -> "rslave"]

RequestedPropagation(m) ==
    IF m.BindOptions.nil \/ m.BindOptions.Propagation \notin MountPropagations
    THEN "rprivate"
    ELSE PropagationName[m.BindOptions.Propagation]

C27_PropagationNamesMode ==
    call.fn = "withMounts" =>
        \A i \in 1..Len(call.Mounts) :
            call.ms[i].Type = "MountTypeBind" =>
                /\ Len(call.Mounts[i].Options) = 3
                /\ call.Mounts[i].Options[3] = RequestedPropagation(call.ms[i])

====
